---- MODULE Spec2Model ----
(***************************************************************************)
(* Step configuration and execution engine of the BaRT (cicd-scripts) and  *)
(* Vjer CI/CD tools: the Action runner (CICDAction.execute,                *)
(* VjerAction.execute), the single-step dispatcher (CICDStep._execute,     *)
(* VjerStep._execute), the release step assembly of ProjectConfig and the  *)
(* version-file patch/restore of update_version_files.                     *)
(***************************************************************************)
EXTENDS Integers, Sequences, FiniteSets, TLC

\* Longest user-declared steps list of a phase section.
MaxSteps == 2

\* Longest user-declared version_files list of a step.
MaxVF == 2

\* Most calls of update_version_files made on one step_info.
MaxCalls == 3

\* Most keys of a mapping handed to update / update_defaults.
MaxMapKeys == 1

\* Most ProjectConfig() constructions and write() calls of one run.
MaxConfigCalls == 3
MaxExecutors == 2
MaxHelperCalls == 2
MaxComponents == 2
MaxDepth == 4

VARIABLES
    gen,            \* tool generation: "cicd" (cicd-scripts) or "vjer"
    action_type,    \* CICDAction.action_type / VjerAction.action_type
    step_class,     \* name of action_step_class
    declared,       \* the phase section's 'steps': [present, list]
    steps,          \* local 'steps' of execute(): the list being iterated
    idx,            \* number of list entries the for loop has taken
    cur,            \* position in 'steps' of the entry taken last
    is_first_step,  \* local 'is_first_step' of execute()
    step_info,      \* step_info of the live executor (NoExecutor when none)
    pc,             \* position of the process
    err,            \* exception in flight inside Action.execute
    exit,           \* how the process invocation ended
    trace,          \* history: lifecycle events in the order they happened
    assigned,       \* history: step.is_first_step given to each visited entry
    effects,        \* history: steps whose handler committed its side effect
    failed,         \* history: steps whose lifecycle raised an error
    version_files,  \* step_info.version_files
    set_app_version,\* step_info.set_app_version
    project_version,\* project.version
    fs,             \* the version files on disk: path -> [exists, content]
    orig,           \* their '.orig' backups on disk: path -> [exists, content]
    pristine,       \* history: the version files before the first call
    before,         \* history: fs and orig before the call made last
    calls,          \* history: calls of update_version_files, with outcome
    section,        \* one ConfigSection: [values, defaults, attrs]
    sec_before,     \* history: the section before the call made last
    sec_last,       \* history: the call made last on the section
    cfg_disk,       \* the configuration documents on disk: path -> document
    environ,        \* the process environment read by ProjectConfig
    config,         \* the ProjectConfig object under construction or built
    loads,          \* history: the outcome of each ProjectConfig()
    phase_runs,     \* history: number of execute() calls of an Action runner
    remote,         \* what the process did to the world outside it
    workdirs,       \* the directory stack of pushd / popd
    tmpdirs,        \* the temporary directories that exist
    oplog,          \* history: the helper call made last, with its outcome
    frames          \* the Action runners inside execute(), outermost first

runner_vars == <<gen, action_type, step_class, declared, steps, idx, cur,
                 is_first_step, step_info, pc, err, exit, trace, assigned, effects,
                 failed>>

file_vars == <<version_files, set_app_version, project_version, fs, orig,
               pristine, before, calls>>

section_vars == <<section, sec_before, sec_last>>

project_vars == <<cfg_disk, environ, config, loads, phase_runs>>

world_vars == <<remote, workdirs, tmpdirs, oplog, frames>>

config_vars == <<section_vars, project_vars, world_vars>>

vars == <<runner_vars, file_vars, config_vars>>

-----------------------------------------------------------------------------
(* Character-level helpers for str.lower / removeprefix / removesuffix.     *)

Lower(c) ==
    CASE c = "B" -> "b" [] c = "D" -> "d" [] c = "P" -> "p"
      [] c = "R" -> "r" [] c = "S" -> "s" [] c = "T" -> "t"
      [] OTHER -> c

LowerStr(s) == [k \in 1..Len(s) |-> Lower(s[k])]

RemovePrefix(s, p) ==
    IF Len(s) >= Len(p) /\ SubSeq(s, 1, Len(p)) = p
    THEN SubSeq(s, Len(p) + 1, Len(s)) ELSE s

RemoveSuffix(s, p) ==
    IF Len(s) >= Len(p) /\ SubSeq(s, Len(s) - Len(p) + 1, Len(s)) = p
    THEN SubSeq(s, 1, Len(s) - Len(p)) ELSE s

\* Spelling of the names the model handles as character sequences.
Chars(w) ==
    CASE w = "TestStep"       -> <<"T","e","s","t","S","t","e","p">>
      [] w = "BuildStep"      -> <<"B","u","i","l","d","S","t","e","p">>
      [] w = "DeployStep"     -> <<"D","e","p","l","o","y","S","t","e","p">>
      [] w = "RollbackStep"   -> <<"R","o","l","l","b","a","c","k","S","t","e","p">>
      [] w = "ReleaseStep"    -> <<"R","e","l","e","a","s","e","S","t","e","p">>
      [] w = "PreReleaseStep" -> <<"P","r","e","R","e","l","e","a","s","e","S","t","e","p">>
      [] w = "test"           -> <<"t","e","s","t">>
      [] w = "build"          -> <<"b","u","i","l","d">>
      [] w = "deploy"         -> <<"d","e","p","l","o","y">>
      [] w = "rollback"       -> <<"r","o","l","l","b","a","c","k">>
      [] w = "release"        -> <<"r","e","l","e","a","s","e">>
      [] w = "prerelease"     -> <<"p","r","e","r","e","l","e","a","s","e">>
      [] w = "pre"            -> <<"p","r","e">>
      [] w = "step"           -> <<"s","t","e","p">>
      [] w = "name"           -> <<"n","a","m","e">>
      [] w = "values"         -> <<"v","a","l","u","e","s">>
      [] w = "_private"       -> <<"_","p","r","i","v","a","t","e">>
      [] w = "version"        -> <<"v","e","r","s","i","o","n">>

PhaseWords == {"test", "build", "deploy", "rollback", "release", "prerelease"}

\* Mutant: the 'pre' prefix is left on the class name.
ClassPhaseChars_KeepPrefix(cls) == RemoveSuffix(LowerStr(Chars(cls)), Chars("step"))

\* type(self).__name__.lower().removeprefix('pre').removesuffix('step')
ClassPhaseChars(cls) ==
    RemoveSuffix(RemovePrefix(LowerStr(Chars(cls)), Chars("pre")), Chars("step"))

class_name(cls) == CHOOSE w \in PhaseWords : Chars(w) = ClassPhaseChars(cls)

\* action_method = f'{class_name}_{self.step_info.type}', kept as the pair.
action_method(cls, type) == <<class_name(cls), type>>

-----------------------------------------------------------------------------
(* Steps and the effective step list.                                       *)

Generations == {"cicd", "vjer"}
\* A phase section without a 'steps' attribute.
NoSteps == [present |-> FALSE, list |-> <<>>]
\* No executor is alive.
NoExecutor == [type |-> "none", ignore |-> FALSE, is_first_step |-> FALSE]

StepTypes == {"docker", "tag_source", "gitlab", "increment_release", "artifacts"}

\* A declared step: its type and its ignore flag (absent reads as falsy).
StepRecords == [type : StepTypes, ignore : BOOLEAN]

RECURSIVE SeqsUpTo(_, _)
SeqsUpTo(S, n) ==
    IF n = 0 THEN {<<>>}
    ELSE LET shorter == SeqsUpTo(S, n - 1)
         IN  shorter \cup {Append(s, x) : s \in {t \in shorter : Len(t) = n - 1}, x \in S}

RELEASE_PRE_STEPS == <<"tag_source">>
RELEASE_POST_STEPS == <<"gitlab", "increment_release">>

Range(s) == {s[k] : k \in DOMAIN s}

RECURSIVE SelectSeqBy(_, _)
\* [s for s in seq if s.type not in excluded]
SelectSeqBy(seq, excluded) ==
    IF seq = <<>> THEN <<>>
    ELSE IF Head(seq).type \in excluded
         THEN SelectSeqBy(Tail(seq), excluded)
         ELSE <<Head(seq)>> \o SelectSeqBy(Tail(seq), excluded)

\* ProjectConfig._get_phase_step: a copy of the first declared step of that
\* type, else a bare DotMap(type=step_type).
get_phase_step(decl, step_type) ==
    IF decl.present /\ \E k \in DOMAIN decl.list : decl.list[k].type = step_type
    THEN decl.list[CHOOSE k \in DOMAIN decl.list :
                 /\ decl.list[k].type = step_type
                 /\ \A j \in DOMAIN decl.list : decl.list[j].type = step_type => k <= j]
    ELSE [type |-> step_type, ignore |-> FALSE]

\* ProjectConfig.__init__ (cicd-scripts): the release_steps list.
release_steps(decl) ==
    [k \in DOMAIN RELEASE_PRE_STEPS |-> get_phase_step(decl, RELEASE_PRE_STEPS[k])]
    \o (IF decl.present
        THEN SelectSeqBy(decl.list, Range(RELEASE_PRE_STEPS) \cup Range(RELEASE_POST_STEPS))
        ELSE <<>>)
    \o [k \in DOMAIN RELEASE_POST_STEPS |-> get_phase_step(decl, RELEASE_POST_STEPS[k])]

\* The list execute() iterates.  cicd-scripts takes use_steps['release'] for
\* the release action and the section's steps otherwise; Vjer has no
\* use_steps and always takes the section's steps.
RunnerSteps(g, atype, decl) ==
    IF g = "cicd" /\ atype = "release" THEN release_steps(decl)
    ELSE IF decl.present THEN decl.list ELSE <<>>

\* 'if step.ignore: continue' of CICDAction.execute; VjerAction.execute has
\* no such test.
RunnerSkips(g, step) == g = "cicd" /\ step.ignore

-----------------------------------------------------------------------------
(* Handler lookup.                                                          *)

\* Handler methods {phase}_{type} each step class defines (inherited ones
\* included), as the set of types.
HandlerTypes(g, cls) ==
    CASE g = "cicd" /\ cls = "TestStep" ->
            {"ansible", "docker", "flake8", "helm", "mypy", "pylint", "python_unittest"}
      [] g = "cicd" /\ cls = "BuildStep" ->
            {"ansible", "configurations", "deployer", "docker", "exec", "filecopy",
             "helm", "info_db", "k8s", "msbuild", "python_module", "umbrella"}
      [] g = "cicd" /\ cls = "DeployStep" ->
            {"ansible", "exec", "filecopy", "helm", "k8s", "package", "qb", "umbrella"}
      [] g = "cicd" /\ cls = "RollbackStep" -> {"ansible", "helm", "qb"}
      [] g = "cicd" /\ cls \in {"ReleaseStep", "PreReleaseStep"} ->
            {"ansible", "docker", "file", "gitlab", "helm", "increment_release", "jira",
             "python_module", "tag_source", "umbrella", "update_versions"}
      [] g = "vjer" /\ cls = "TestStep" ->
            {"docker", "flake8", "helm", "mypy", "pylint", "python_unittest"}
      [] g = "vjer" /\ cls = "BuildStep" -> {"docker", "flit", "helm"}
      [] g = "vjer" /\ cls = "DeployStep" -> {"helm"}
      [] g = "vjer" /\ cls = "RollbackStep" -> {"helm"}
      [] g = "vjer" /\ cls = "ReleaseStep" ->
            {"docker", "helm", "increment_release", "tag_source"}
      [] g = "vjer" /\ cls = "PreReleaseStep" ->
            {"docker", "helm", "increment_release", "tag_source", "bumpver"}

MethodDefined(g, cls, method) ==
    method[1] = class_name(cls) /\ method[2] \in HandlerTypes(g, cls)

\* Keys of the Vjer project section that spell '<phase>_<rest>': the
\* defaults build_artifacts, build_num_var, test_results (_PROJECT_DEFAULTS)
\* and test_results_dir (_set_defaults).
VjerProjectDefaultKeys ==
    {<<"build", "artifacts">>, <<"build", "num_var">>,
     <<"test", "results">>, <<"test", "results_dir">>}

\* Keys of _DEFAULTS (cicd-scripts) that contain an underscore.
CicdDefaultKeys ==
    {<<"ansible", "dir">>, <<"chart", "repo">>, <<"chart", "root">>,
     <<"container", "registry">>}

\* The __getattr__ fallback of the step class: the names for which it does
\* not raise AttributeError.
StepGetattrFinds(g, name) ==
    IF g = "vjer" THEN name \in VjerProjectDefaultKeys
    ELSE name \in CicdDefaultKeys

\* hasattr(self, action_method)
HasActionMethod(g, cls, method) ==
    MethodDefined(g, cls, method) \/ StepGetattrFinds(g, method)

-----------------------------------------------------------------------------
(* The step lifecycle.                                                      *)

\* Action.execute of the automation library: pre, _execute, post in that
\* order, each only when the one before did not raise, and always_post on
\* every way out.
ActionExecuteNext(stage, raised) ==
    CASE stage = "pre"  -> IF raised THEN "always_post" ELSE "exec"
      [] stage = "exec" -> IF raised THEN "always_post" ELSE "post"
      [] stage = "post" -> "always_post"

\* Mutant: the fatal exit ends the process on the spot (os._exit), so the
\* exit path of Action.execute is never taken.
FatalExitStage_HardExit == "done"

\* Mutant: the missing handler is only reported and _execute returns.
FatalExitStage_Return == ActionExecuteNext("exec", FALSE)

\* sys_exit(1) in _execute raises SystemExit inside Action.execute.
FatalExitStage == ActionExecuteNext("exec", TRUE)

\* pre() overrides with a body that can fail: BuildStep.pre, TestStep.pre.
PreCanRaise(cls) == cls \in {"BuildStep", "TestStep"}

\* post() overrides with a body that can fail: BuildStep.post of
\* cicd-scripts publishes packages; the others only log.
PostCanRaise(g, cls) == g = "cicd" /\ cls = "BuildStep"

\* Entry points: main() / build() / ... of each action module.
Entries ==
    {<<"test", "TestStep">>, <<"build", "BuildStep">>, <<"deploy", "DeployStep">>,
     <<"rollback", "RollbackStep">>, <<"release", "ReleaseStep">>,
     <<"release", "PreReleaseStep">>}

\* Mutant: the loop walks the list backwards.
NextEntry_Reversed(n, taken) == n - taken

\* The for loop of execute() yields the entries in list order.
NextEntry(n, taken) == taken + 1

\* Mutant: the loop body catches the error and goes on.
RunnerAfterExecute_Swallow(e) == "loop"

\* Where execute() of the runner continues once executor.execute() has
\* ended with exception e: the next iteration, or out of the loop (the
\* loop has no try/except).
RunnerAfterExecute(e) == IF e = "none" THEN "loop" ELSE "done"

Event(name, k) == [ev |-> name, i |-> k]

\* 'if self.step_info.is_first_step:' of BuildStep.pre and TestStep.pre:
\* the artifact directory, or the test results directory, is removed and
\* created again.
PhaseSetup(cls, info) == cls \in {"BuildStep", "TestStep"} /\ info.is_first_step

\* What pre() of the executor of entry k does, in order: super().pre(),
\* then the one-time setup when its condition holds.
PreEvents(cls, info, k) ==
    IF PhaseSetup(cls, info) THEN <<Event("pre", k), Event("setup", k)>>
    ELSE <<Event("pre", k)>>

-----------------------------------------------------------------------------
(* Version files: update_version_files(reset) of BuildStep (cicd-scripts)  *)
(* and of VjerStep (vjer), over a small file system.                       *)

HELM_CHART_FILE == "Chart.yaml"

\* DEFAULT_VERSION_FILES of the generation: build type -> file names.
DEFAULT_VERSION_FILES(g) ==
    IF g = "cicd"
    THEN [helm |-> <<HELM_CHART_FILE, "values.yaml">>, python_module |-> <<"__init__.py">>]
    ELSE [helm |-> <<HELM_CHART_FILE, "values.yaml">>]

\* chart_root of _DEFAULTS / _PROJECT_DEFAULTS.
CHART_ROOT == "helm-chart"

\* project.version as configured, and an entry of step_info.extra_versions.
PROJECT_VERSION == "1.0.0"

EXTRA_VERSION == "2.0.0"

\* prefix / v of pathlib.
Join(prefix, v) == [dir |-> prefix, name |-> v]

\* The files of the project a step may name as version files.
Paths ==
    {Join(CHART_ROOT, HELM_CHART_FILE), Join(CHART_ROOT, "values.yaml"),
     Join(".", "version.txt"), Join(".", "__init__.py")}

VersionStepTypes == {"helm", "python_module", "docker"}

\* The classes whose steps call update_version_files.
VersionEntries(g) ==
    IF g = "cicd"
    THEN {<<"build", "BuildStep">>}
    ELSE {<<"build", "BuildStep">>, <<"release", "PreReleaseStep">>}

Tok(k, v) == [k |-> k, v |-> v]

NoFile == [exists |-> FALSE, content |-> <<>>]

File(c) == [exists |-> TRUE, content |-> c]

\* What the checked-in files hold: text, variable references for the
\* expander, and for Chart.yaml a comment and its fields in written order.
InitialContent(p) ==
    CASE p.name = HELM_CHART_FILE ->
            <<Tok("comment", "chart"), Tok("name", "app"), Tok("version", "0.0.0"),
              Tok("appVersion", "0.0.0")>>
      [] p.name = "values.yaml" -> <<Tok("text", "tag"), Tok("var", "version")>>
      [] p.name = "version.txt" -> <<Tok("var", "version")>>
      [] OTHER -> <<Tok("text", "__version__"), Tok("var", "version")>>

\* file_expander: every variable reference becomes its value.
file_expander(content, ver) ==
    [i \in DOMAIN content |->
        IF content[i].k = "var" THEN Tok("text", ver) ELSE content[i]]

NoValue == "<none>"

\* The keys of a chart file, in the order yaml_dump writes them (sorted).
YamlKeys == <<"appVersion", "name", "version">>

\* yaml_load: the mapping of the document; comments are not part of it.
yaml_load(content) ==
    [key \in Range(YamlKeys) |->
        IF \E i \in DOMAIN content : content[i].k = key
        THEN content[CHOOSE i \in DOMAIN content : content[i].k = key].v
        ELSE NoValue]

\* yaml_dump: the keys of the mapping in sorted order.
yaml_dump(info) ==
    LET toks == [i \in DOMAIN YamlKeys |-> Tok(YamlKeys[i], info[YamlKeys[i]])]
        Present(t) == t.v # NoValue
    IN  SelectSeq(toks, Present)

\* The new content of file_path, written from its backup file_orig.
PatchedContent(p, content, ver, set_app) ==
    LET expanded == file_expander(content, ver)
        helm_info == [yaml_load(expanded) EXCEPT
                         !["version"] = ver,
                         !["appVersion"] = IF set_app THEN ver ELSE @]
    IN  IF p.name = HELM_CHART_FILE THEN yaml_dump(helm_info) ELSE expanded

\* self.python_module_source is a property of the cicd-scripts BuildStep
\* only; on a VjerStep the lookup ends in __getattr__ and raises.
PrefixRaises(g, type) == g = "vjer" /\ type = "python_module"

Prefix(type) == IF type = "helm" THEN CHART_ROOT ELSE "."

\* step_info.version_files after '+=' of the default files that exist.
ExtendedVersionFiles(g, type, vf, fsys) ==
    IF type \in DOMAIN DEFAULT_VERSION_FILES(g)
    THEN LET names == DEFAULT_VERSION_FILES(g)[type]
             defaults == [i \in DOMAIN names |-> Join(Prefix(type), names[i])]
             Exists(p) == p \in Paths /\ fsys[p].exists
         IN  vf \o SelectSeq(defaults, Exists)
    ELSE vf

\* The for loop over step_info.version_files from entry i on; st is
\* [fs, orig, raised].
RECURSIVE ProcessFiles(_, _, _, _, _, _)
ProcessFiles(list, i, st, reset, ver, set_app) ==
    IF i > Len(list)
    THEN st
    ELSE LET p == list[i]
         IN  IF reset
             THEN IF st.orig[p].exists
                  THEN ProcessFiles(list, i + 1,
                           [st EXCEPT !.fs[p] = st.orig[p], !.orig[p] = NoFile],
                           reset, ver, set_app)
                  ELSE ProcessFiles(list, i + 1, st, reset, ver, set_app)
             ELSE IF ~st.fs[p].exists
                  THEN [st EXCEPT !.raised = "FileNotFoundError"]
                  ELSE ProcessFiles(list, i + 1,
                           [st EXCEPT
                               !.orig[p] = st.fs[p],
                               !.fs[p] = File(PatchedContent(p, st.fs[p].content,
                                                             ver, set_app))],
                           reset, ver, set_app)

\* update_version_files(reset): the version_files list and the file system
\* it leaves, and the exception it raises.
update_version_files(g, type, vf, fsys, backups, reset, ver, set_app) ==
    IF PrefixRaises(g, type)
    THEN [version_files |-> vf, fs |-> fsys, orig |-> backups,
          raised |-> "AttributeError"]
    ELSE LET list == ExtendedVersionFiles(g, type, vf, fsys)
             st == ProcessFiles(list, 1,
                       [fs |-> fsys, orig |-> backups, raised |-> "none"],
                       reset, ver, set_app)
         IN  [version_files |-> list, fs |-> st.fs, orig |-> st.orig,
              raised |-> st.raised]

-----------------------------------------------------------------------------
(* ConfigSection: the two layers, attribute lookup and the mutators.        *)

\* Attribute names used on a section: an ordinary key, the name of a member
\* of the class, and a name with a leading underscore.
SectionKeys == {"name", "values", "_private"}

\* Entries: a plain string and one with a variable reference.
SectionVals == {"a", "{var:HOME}"}

Absent == "<absent>"

\* A mapping over the keys; Absent marks a key the mapping does not have.
Layers == [SectionKeys -> SectionVals \cup {Absent}]

EmptyLayer == [k \in SectionKeys |-> Absent]

\* The mappings handed to update and update_defaults.
Mappings == {m \in Layers : Cardinality({k \in SectionKeys : m[k] # Absent}) <= MaxMapKeys}

\* ConfigSection(**defaults)
NewSection(defaults) ==
    [values |-> [k \in DOMAIN defaults |-> Absent], defaults |-> defaults,
     attrs |-> [k \in DOMAIN defaults |-> Absent]]

\* a |= b of two mappings.
Merge(a, b) == [k \in DOMAIN a |-> IF b[k] # Absent THEN b[k] ELSE a[k]]

\* attr.startswith('_')
StartsWithUnderscore(attr) == Chars(attr)[1] = "_"

\* Names the class ConfigSection defines itself: normal attribute lookup
\* finds them and __getattr__ is not called.
ClassMembers == {"values", "update", "update_defaults", "update_expander"}

\* The process environment the default Expander reads.
ENVIRONMENT == [HOME |-> "/home"]

\* Expander.expand of a string: a reference to a bound variable becomes its
\* value, a string without reference is returned as it is.
expand(v) == IF v = "{var:HOME}" THEN ENVIRONMENT.HOME ELSE v

\* ConfigSection.__getattr__: values first, then defaults, expanded.
section_getattr(sec, attr) ==
    CASE sec.values[attr] # Absent -> [kind |-> "value", v |-> expand(sec.values[attr])]
      [] sec.defaults[attr] # Absent -> [kind |-> "value", v |-> expand(sec.defaults[attr])]
      [] OTHER -> [kind |-> "AttributeError", v |-> Absent]

\* The values property: a plain copy of the values layer.
section_values(sec) ==
    {<<k, sec.values[k]>> : k \in {x \in DOMAIN sec.values : sec.values[x] # Absent}}

\* getattr(section, attr): the instance attributes, then the members of
\* the class, then __getattr__.
section_get(sec, attr) ==
    CASE sec.attrs[attr] # Absent -> [kind |-> "value", v |-> sec.attrs[attr]]
      [] attr \in ClassMembers -> [kind |-> "member", v |-> attr]
      [] OTHER -> section_getattr(sec, attr)

\* ConfigSection.__setattr__
section_set(sec, attr, value) ==
    IF StartsWithUnderscore(attr)
    THEN [sec EXCEPT !.attrs[attr] = value]
    ELSE [sec EXCEPT !.values[attr] = value]

\* ConfigSection.update
section_update(sec, mapping) == [sec EXCEPT !.values = Merge(@, mapping)]

\* ConfigSection.update_defaults
section_update_defaults(sec, mapping) == [sec EXCEPT !.defaults = Merge(@, mapping)]

-----------------------------------------------------------------------------
(* ProjectConfig: the document, construction and write().                   *)

\* _CONFIG_SECTIONS
CONFIG_SECTIONS == {"project", "test", "build", "deploy", "rollback", "release"}

\* _VALID_SCHEMAS of the generation.
VALID_SCHEMAS(g) == IF g = "cicd" THEN {1} ELSE {3}

\* The schema values a document is written with.
DocSchemas == {0, 1, 3, 4}

\* The keys of the sections that construction reads or writes.
ConfigKeys ==
    {"project_root", "name", "product", "version", "version_service",
     "build_num_var", "build_artifacts", "artifacts_dir", "test_results",
     "test_results_dir", "source_dir", "build_num", "build_version",
     "build_version_msbuild", "build_name", "release_tag", "major", "minor",
     "patch", "clean"}

\* The mapping with the entries of record r.
Lay(r) == [k \in ConfigKeys |-> IF k \in DOMAIN r THEN r[k] ELSE Absent]

NoEntries == [k \in ConfigKeys |-> Absent]

IsEmptyMap(m) == \A k \in DOMAIN m : m[k] = Absent

\* project_root / PROJECT_CFG_FILE, and another file of the project.
PROJECT_CFG_FILE == "vjer.yml"

CfgPaths == {PROJECT_CFG_FILE, "other.yml"}

PROJECT_ROOT == "/repo"

\* prefix / name of pathlib, on strings.
PathJoin(prefix, name) == prefix \o "/" \o name

\* A section of a document: absent, or present with its mapping.
NoDocSection == [present |-> FALSE, map |-> NoEntries]

DocSection(m) == [present |-> TRUE, map |-> m]

\* A document on disk: no file, a file that parses to nothing, or a mapping
\* with an optional schema (a set of at most one value) and its sections.
NoDocument ==
    [kind |-> "missing", schema |-> {}, sections |-> [s \in CONFIG_SECTIONS |-> NoDocSection]]

EmptyDocument ==
    [kind |-> "empty", schema |-> {}, sections |-> [s \in CONFIG_SECTIONS |-> NoDocSection]]

\* Spelling of the versions of the model: the pieces between the dots.
Components(v) ==
    CASE v = "1.2.3"   -> <<"1", "2", "3">>
      [] v = "1.2.4"   -> <<"1", "2", "4">>
      [] v = "1.2.5"   -> <<"1", "2", "5">>
      [] v = "1.2.6"   -> <<"1", "2", "6">>
      [] v = "2.0.0"   -> <<"2", "0", "0">>
      [] v = "2.0.0.1" -> <<"2", "0", "0", "1">>
      [] v = "3.1.0"   -> <<"3", "1", "0">>
      [] v = "4.5.6"   -> <<"4", "5", "6">>

\* version.split('.', 2): at most two splits, the rest stays one piece.
VersionParts(v) ==
    LET c == Components(v)
    IN  IF Len(c) <= 3 THEN c
        ELSE <<c[1], c[2], c[3] \o "." \o c[4]>>

DOC_VERSION == "1.2.3"

\* The value of the variable an 'environment' version service names.
ENV_VERSION == "2.0.0"

\* What bumpver_config() reports.
BUMPVER_VERSION == "3.1.0"

\* version_service.value of a 'semver' service.
SEMVER_VERSION == "4.5.6"

\* The mapping documents of the model: every combination of a schema, a
\* project section (name or product, version, version service) and build,
\* release and deploy sections that are absent or override a derived key.
MappingDocuments ==
    { [kind |-> "mapping", schema |-> sch,
       sections |-> [s \in CONFIG_SECTIONS |->
          CASE s = "project" ->
                  DocSection([k \in ConfigKeys |->
                      CASE k \in {"name", "product"} -> named
                        [] k = "version" -> ver
                        [] k = "version_service" -> svc
                        [] OTHER -> Absent])
            [] s = "build" -> bld
            [] s = "release" -> rel
            [] s = "deploy" -> dep
            [] OTHER -> NoDocSection]] :
      sch \in {{}} \cup {{n} : n \in DocSchemas},
      named \in {Absent, "app"},
      ver \in {Absent, DOC_VERSION},
      svc \in {Absent, "environment", "semver", "bumpver", "vjer", "other"},
      bld \in {NoDocSection, DocSection(NoEntries), DocSection(Lay([build_num |-> "7"]))},
      rel \in {NoDocSection, DocSection(Lay([release_tag |-> "custom"]))},
      dep \in {NoDocSection, DocSection(Lay([clean |-> "false"]))} }

Documents == {NoDocument, EmptyDocument} \cup MappingDocuments

\* The sections ProjectConfig.__init__ constructs, with their defaults.
ConstructorDefaults(g, s) ==
    CASE s = "project" /\ g = "vjer" ->
            Lay([project_root |-> PROJECT_ROOT, build_artifacts |-> "artifacts",
                 build_num_var |-> "VJER_BUILD_NUM", test_results |-> "test_results",
                 version_service |-> "vjer"])
      [] s = "project" /\ g = "cicd" ->
            Lay([project_root |-> PROJECT_ROOT,
                 artifacts_dir |-> PathJoin(PROJECT_ROOT, "artifacts"),
                 build_num_var |-> "CI_PIPELINE_IID",
                 test_results_dir |-> PathJoin(PROJECT_ROOT, "test_results")])
      [] s = "build" /\ g = "vjer" ->
            Lay([source_dir |-> PathJoin(PROJECT_ROOT, "src")])
      [] s = "build" /\ g = "cicd" ->
            Lay([source_dir |-> PathJoin(PROJECT_ROOT, "src"),
                 artifacts_dir |-> PathJoin(PROJECT_ROOT, "artifacts")])
      [] s \in {"deploy", "rollback"} -> Lay([clean |-> "true"])
      [] OTHER -> NoEntries

NewSections(g) == [s \in CONFIG_SECTIONS |-> NewSection(ConstructorDefaults(g, s))]

\* No ProjectConfig object.
NoConfig ==
    [state |-> "none", raised |-> "none", schema |-> 0, config_file |-> PROJECT_CFG_FILE,
     sections |-> [s \in CONFIG_SECTIONS |-> NewSection(NoEntries)]]

\* The keys of 'yaml_as_dict = DotMap(schema=0); yaml_as_dict |= DotMap(yaml_load(...))'.
YamlAsDictKeys(doc) ==
    {"schema"} \cup {s \in CONFIG_SECTIONS : doc.sections[s].present}

\* yaml_as_dict.schema
YamlAsDictSchema(doc) == IF doc.schema = {} THEN 0 ELSE CHOOSE n \in doc.schema : TRUE

\* Mutant: the schema test lets every document through.
SchemaSupported_Any(g, schema) == TRUE

\* yaml_as_dict.schema in _VALID_SCHEMAS
SchemaSupported(g, schema) == schema \in VALID_SCHEMAS(g)

\* _load_config (vjer) / the load part of __init__ (cicd-scripts): the
\* error it raises, the schema and the sections after the merge.
load_config(g, doc, sections) ==
    IF doc.kind = "missing"
    THEN [raised |-> "CONFIG_FILE_NOT_FOUND", schema |-> 0, sections |-> sections]
    ELSE IF YamlAsDictKeys(doc) = {}
    THEN [raised |-> "BAD_FORMAT", schema |-> 0, sections |-> sections]
    ELSE IF ~SchemaSupported(g, YamlAsDictSchema(doc))
    THEN [raised |-> "INVALID_SCHEMA", schema |-> 0, sections |-> sections]
    ELSE [raised |-> "none", schema |-> YamlAsDictSchema(doc),
          sections |-> [s \in CONFIG_SECTIONS |->
              IF doc.sections[s].present
              THEN section_update(sections[s], doc.sections[s].map)
              ELSE sections[s]]]

\* hasattr(section, attr)
HasAttr(sec, attr) == section_getattr(sec, attr).kind = "value"

\* section.attr of an attribute that exists
Read(sec, attr) == section_getattr(sec, attr).v

\* _set_defaults (vjer): the directories under the project root.
set_defaults(g, sections) ==
    IF g = "vjer"
    THEN [sections EXCEPT !["project"] = section_update_defaults(@,
             Lay([artifacts_dir |-> PathJoin(Read(@, "project_root"), Read(@, "build_artifacts")),
                  test_results_dir |-> PathJoin(Read(@, "project_root"), Read(@, "test_results"))]))]
    ELSE sections

\* Mutant: a service type the generation does not know is taken for a
\* literal version.
ServiceVersion_NoDefaultCase(g, type, env) ==
    IF type = "environment" THEN env.VERSION ELSE SEMVER_VERSION

\* The version services of the generation, with the version each gives.
ServiceVersion(g, type, env) ==
    CASE type = "environment" -> env.VERSION
      [] type = "bumpver" /\ g = "vjer" -> BUMPVER_VERSION
      [] type = "semver" /\ g = "cicd" -> SEMVER_VERSION
      [] OTHER -> Absent

\* self.project.version = <version of the service>
StoreServiceVersion(sec, version) == section_set(sec, "version", version)

\* _set_version (vjer) / _set_version_from_service (cicd-scripts), up to
\* the fatal exit for an unknown service.
set_version_from_service(g, sections, env) ==
    LET project == sections["project"]
    IN  IF ~HasAttr(project, "version_service")
        THEN [raised |-> "none", sections |-> sections]
        ELSE LET type == Read(project, "version_service")
                 version == ServiceVersion(g, type, env)
             IN  IF g = "vjer" /\ type = "vjer"
                 THEN [raised |-> "none", sections |-> sections]
                 ELSE IF version = Absent
                 THEN [raised |-> "SystemExit", sections |-> sections]
                 ELSE [raised |-> "none",
                       sections |-> [sections EXCEPT
                                        !["project"] = StoreServiceVersion(@, version)]]

\* getenv(self.project.build_num_var, '0')
BuildNum(env) == IF env.BUILD_NUM = Absent THEN "0" ELSE env.BUILD_NUM

\* The name the build is called by: project.name (vjer), project.product
\* (cicd-scripts).
NameKey(g) == IF g = "vjer" THEN "name" ELSE "product"

\* The derived values: build_num, build_version, build_name, release_tag
\* and the pieces of the version, merged into the defaults.
set_derived(g, sections, env) ==
    LET project == sections["project"]
    IN  IF ~HasAttr(project, "version") \/ ~HasAttr(project, NameKey(g))
        THEN [raised |-> "AttributeError", sections |-> sections]
        ELSE LET version == Read(project, "version")
                 build_num == BuildNum(env)
                 build_version == version \o "-" \o build_num
                 parts == VersionParts(version)
             IN  [raised |-> "none",
                  sections |-> [sections EXCEPT
                     !["build"] = section_update_defaults(@,
                         Lay([build_num |-> build_num,
                              build_version |-> build_version,
                              build_version_msbuild |-> version \o "." \o build_num,
                              build_name |-> Read(project, NameKey(g)) \o "_" \o build_version])),
                     !["release"] = section_update_defaults(@,
                         Lay([release_tag |-> "v" \o version])),
                     !["project"] = section_update_defaults(@,
                         Lay([major |-> parts[1], minor |-> parts[2], patch |-> parts[3]]))]]

\* ProjectConfig(): the object a construction leaves, or the error raised.
project_config(g, disk, env) ==
    LET loaded == load_config(g, disk[PROJECT_CFG_FILE], NewSections(g))
        based == set_defaults(g, loaded.sections)
        versioned == set_version_from_service(g, based, env)
        derived == set_derived(g, versioned.sections, env)
        Failed(e, secs) == [state |-> "failed", raised |-> e, schema |-> loaded.schema,
                            config_file |-> PROJECT_CFG_FILE, sections |-> secs]
    IN  CASE loaded.raised # "none" -> Failed(loaded.raised, loaded.sections)
          [] versioned.raised # "none" -> Failed(versioned.raised, versioned.sections)
          [] derived.raised # "none" -> Failed(derived.raised, derived.sections)
          [] OTHER -> [state |-> "built", raised |-> "none", schema |-> loaded.schema,
                       config_file |-> PROJECT_CFG_FILE, sections |-> derived.sections]

\* Mutant: write() dumps what a read of each key gives, defaults included.
WrittenSection_Merged(sec) ==
    [present |-> TRUE, map |-> Merge(sec.defaults, sec.values)]

\* A section as write() dumps it: its values, when it has any.
WrittenSection(sec) ==
    [present |-> ~IsEmptyMap(sec.values), map |-> sec.values]

\* yaml_dump({'schema': ...} | {s: c.values for ... if c.values})
written_document(cfg) ==
    [kind |-> "mapping", schema |-> {cfg.schema},
     sections |-> [s \in CONFIG_SECTIONS |-> WrittenSection(cfg.sections[s])]]

\* The values snapshot of every section.
Snapshot(cfg) == [s \in CONFIG_SECTIONS |-> section_values(cfg.sections[s])]

\* No call was made on the section.
NoCall == [op |-> "none", attr |-> "none", value |-> Absent, mapping |-> EmptyLayer]

\* The configuration objects while the runner or the version files are at work.
SectionIdle ==
    /\ section = NewSection(EmptyLayer)
    /\ sec_before = section
    /\ sec_last = NoCall

ProjectIdle ==
    /\ cfg_disk = [p \in CfgPaths |-> NoDocument]
    /\ environ = [BUILD_NUM |-> Absent, VERSION |-> ENV_VERSION]
    /\ config = NoConfig
    /\ loads = <<>>
    /\ phase_runs = 0

\* Nothing was done outside the process, no directory pushed or created.
WorldIdle ==
    /\ remote = {}
    /\ workdirs = <<>>
    /\ tmpdirs = {}
    /\ oplog = <<>>
    /\ frames = <<>>

ConfigIdle == SectionIdle /\ ProjectIdle /\ WorldIdle

-----------------------------------------------------------------------------
(* The Action runner.                                                       *)

Init ==
    /\ gen \in Generations
    /\ \E e \in Entries : action_type = e[1] /\ step_class = e[2]
    /\ declared \in {NoSteps} \cup
          {[present |-> TRUE, list |-> l] : l \in SeqsUpTo(StepRecords, MaxSteps)}
    /\ steps = <<>>
    /\ idx = 0
    /\ cur = 0
    /\ is_first_step = TRUE
    /\ step_info = NoExecutor
    /\ pc = "start"
    /\ err = "none"
    /\ exit = "running"
    /\ trace = <<>>
    /\ assigned = <<>>
    /\ effects = {}
    /\ failed = {}
    /\ version_files = <<>>
    /\ set_app_version = FALSE
    /\ project_version = PROJECT_VERSION
    /\ fs = [p \in Paths |-> NoFile]
    /\ orig = [p \in Paths |-> NoFile]
    /\ pristine = fs
    /\ before = [fs |-> fs, orig |-> orig]
    /\ calls = <<>>
    /\ ConfigIdle

\* execute() up to the for loop: pick the step list, return when empty.
RunnerStart ==
    /\ pc = "start"
    /\ steps' = RunnerSteps(gen, action_type, declared)
    /\ IF steps' = <<>>
       THEN pc' = "done" /\ exit' = "returned"
       ELSE pc' = "loop" /\ exit' = exit
    /\ is_first_step' = TRUE
    /\ UNCHANGED <<gen, action_type, step_class, declared, idx, cur, step_info,
                   err, trace, assigned, effects, failed>>
    /\ UNCHANGED file_vars
    /\ UNCHANGED config_vars

\* One pass of the loop head: mark is_first_step, log, skip or construct
\* the executor and hand it the step as step_info.
RunnerNextStep ==
    /\ pc = "loop"
    /\ idx < Len(steps)
    /\ LET k == NextEntry(Len(steps), idx)
           step == steps[k]
       IN  /\ idx' = idx + 1
           /\ cur' = k
           /\ assigned' = Append(assigned, [i |-> k, first |-> is_first_step])
           /\ IF RunnerSkips(gen, step)
              THEN /\ trace' = Append(trace, Event("skip", k))
                   /\ pc' = "loop"
                   /\ step_info' = step_info
              ELSE /\ trace' = Append(trace, Event("construct", k))
                   /\ pc' = "pre"
                   /\ step_info' = [type |-> step.type, ignore |-> step.ignore,
                                    is_first_step |-> is_first_step]
    /\ UNCHANGED <<gen, action_type, step_class, declared, steps, is_first_step,
                   err, exit, effects, failed>>
    /\ UNCHANGED file_vars
    /\ UNCHANGED config_vars

\* The loop is exhausted: execute() returns.
RunnerReturn ==
    /\ pc = "loop"
    /\ idx = Len(steps)
    /\ pc' = "done"
    /\ exit' = "returned"
    /\ UNCHANGED <<gen, action_type, step_class, declared, steps, idx, cur,
                   is_first_step, step_info, err, trace, assigned, effects, failed>>
    /\ UNCHANGED file_vars
    /\ UNCHANGED config_vars

\* pre() of the executor.
StepPre ==
    /\ pc = "pre"
    /\ \E raised \in (IF PreCanRaise(step_class) THEN BOOLEAN ELSE {FALSE}) :
          /\ err' = IF raised THEN "error" ELSE "none"
          /\ failed' = IF raised THEN failed \cup {cur} ELSE failed
          /\ pc' = ActionExecuteNext("pre", raised)
    /\ trace' = trace \o PreEvents(step_class, step_info, cur)
    /\ UNCHANGED <<gen, action_type, step_class, declared, steps, idx, cur,
                   is_first_step, step_info, exit, assigned, effects>>
    /\ UNCHANGED file_vars
    /\ UNCHANGED config_vars

\* _execute(): look the handler up by name and call it.
StepExecute ==
    /\ pc = "exec"
    /\ LET method == action_method(step_class, step_info.type)
       IN  IF ~HasActionMethod(gen, step_class, method)
           THEN \* 'No method defined for action type ...', sys_exit(1)
                /\ trace' = Append(trace, Event("no_method", cur))
                /\ err' = "exit"
                /\ pc' = FatalExitStage
                /\ exit' = IF FatalExitStage = "done" THEN "sys_exit" ELSE exit
                /\ effects' = effects
                /\ failed' = failed \cup {cur}
           ELSE IF ~MethodDefined(gen, step_class, method)
           THEN \* getattr() gave a configuration value: calling it fails
                /\ trace' = Append(trace, Event("not_callable", cur))
                /\ err' = "error"
                /\ pc' = ActionExecuteNext("exec", TRUE)
                /\ failed' = failed \cup {cur}
                /\ UNCHANGED <<exit, effects>>
           ELSE \E raised \in BOOLEAN :
                /\ trace' = Append(trace, Event("handler", cur))
                /\ err' = IF raised THEN "error" ELSE "none"
                /\ pc' = ActionExecuteNext("exec", raised)
                /\ effects' = IF raised THEN effects ELSE effects \cup {cur}
                /\ failed' = IF raised THEN failed \cup {cur} ELSE failed
                /\ exit' = exit
    /\ UNCHANGED <<gen, action_type, step_class, declared, steps, idx, cur,
                   is_first_step, step_info, assigned>>
    /\ UNCHANGED file_vars
    /\ UNCHANGED config_vars

\* post() of the executor.
StepPost ==
    /\ pc = "post"
    /\ \E raised \in (IF PostCanRaise(gen, step_class) THEN BOOLEAN ELSE {FALSE}) :
          /\ err' = IF raised THEN "error" ELSE "none"
          /\ failed' = IF raised THEN failed \cup {cur} ELSE failed
          /\ pc' = ActionExecuteNext("post", raised)
    /\ trace' = Append(trace, Event("post", cur))
    /\ UNCHANGED <<gen, action_type, step_class, declared, steps, idx, cur,
                   is_first_step, step_info, exit, assigned, effects>>
    /\ UNCHANGED file_vars
    /\ UNCHANGED config_vars

\* always_post() of the executor, then the rest of the loop body
\* (is_first_step = False) or the exception leaving execute().
StepAlwaysPost ==
    /\ pc = "always_post"
    /\ trace' = Append(trace, Event("always_post", cur))
    /\ step_info' = NoExecutor
    /\ pc' = RunnerAfterExecute(err)
    /\ is_first_step' = IF err = "none" THEN FALSE ELSE is_first_step
    /\ exit' = CASE pc' # "done" -> exit
                 [] err = "exit" -> "sys_exit"
                 [] err = "none" -> "returned"
                 [] OTHER -> "raised"
    /\ err' = "none"
    /\ UNCHANGED <<gen, action_type, step_class, declared, steps, idx, cur,
                   assigned, effects, failed>>
    /\ UNCHANGED file_vars
    /\ UNCHANGED config_vars

Next ==
    \/ RunnerStart
    \/ RunnerNextStep
    \/ RunnerReturn
    \/ StepPre
    \/ StepExecute
    \/ StepPost
    \/ StepAlwaysPost

Spec == Init /\ [][Next]_vars

-----------------------------------------------------------------------------
(* The version-file calls made on one step_info.                            *)

runner_idle_vars == <<gen, action_type, step_class, declared, steps, idx, cur,
                      is_first_step, step_info, pc, err, exit, trace, assigned,
                      effects, failed>>

\* An executor that has its step_info, in a checked-out project.
InitVF ==
    /\ gen \in Generations
    /\ \E e \in VersionEntries(gen) : action_type = e[1] /\ step_class = e[2]
    /\ step_info \in {[type |-> t, ignore |-> FALSE, is_first_step |-> TRUE] :
                         t \in VersionStepTypes}
    /\ step_class = "PreReleaseStep" => step_info.type = "helm"
    /\ declared = NoSteps
    /\ steps = <<>>
    /\ idx = 0
    /\ cur = 0
    /\ is_first_step = TRUE
    /\ pc = "version_files"
    /\ err = "none"
    /\ exit = "running"
    /\ trace = <<>>
    /\ assigned = <<>>
    /\ effects = {}
    /\ failed = {}
    /\ version_files \in SeqsUpTo(Paths, MaxVF)
    /\ set_app_version \in BOOLEAN
    /\ project_version = PROJECT_VERSION
    /\ fs \in [Paths -> {NoFile} \cup {File(InitialContent(p)) : p \in Paths}]
    /\ \A p \in Paths : fs[p].exists => fs[p].content = InitialContent(p)
    /\ orig = [p \in Paths |-> NoFile]
    /\ pristine = fs
    /\ before = [fs |-> fs, orig |-> orig]
    /\ calls = <<>>
    /\ ConfigIdle

\* One call on the executor: the list and the files it leaves, recorded.
CallVersionFiles(reset) ==
    LET r == update_version_files(gen, step_info.type, version_files, fs, orig,
                                  reset, project_version, set_app_version)
    IN  /\ version_files' = r.version_files
        /\ fs' = r.fs
        /\ orig' = r.orig
        /\ calls' = Append(calls, [op |-> IF reset THEN "reset" ELSE "update",
                                   raised |-> r.raised])
        /\ before' = [fs |-> fs, orig |-> orig]

\* self.update_version_files()
UpdateVersionFiles ==
    /\ pc = "version_files"
    /\ Len(calls) < MaxCalls
    /\ CallVersionFiles(FALSE)
    /\ UNCHANGED <<set_app_version, project_version, pristine>>
    /\ UNCHANGED runner_idle_vars
    /\ UNCHANGED config_vars

\* self.update_version_files(reset=True)
ResetVersionFiles ==
    /\ pc = "version_files"
    /\ Len(calls) < MaxCalls
    /\ CallVersionFiles(TRUE)
    /\ UNCHANGED <<set_app_version, project_version, pristine>>
    /\ UNCHANGED runner_idle_vars
    /\ UNCHANGED config_vars

\* The loop of PreReleaseStep.release_helm takes the next extra version.
SetProjectVersion ==
    /\ pc = "version_files"
    /\ step_class = "PreReleaseStep"
    /\ calls # <<>> /\ calls[Len(calls)].op = "reset"
    /\ project_version = PROJECT_VERSION
    /\ project_version' = EXTRA_VERSION
    /\ UNCHANGED <<version_files, set_app_version, fs, orig, pristine, before, calls>>
    /\ UNCHANGED runner_idle_vars
    /\ UNCHANGED config_vars

NextVF ==
    \/ UpdateVersionFiles
    \/ ResetVersionFiles
    \/ SetProjectVersion

SpecVF == InitVF /\ [][NextVF]_vars

-----------------------------------------------------------------------------
(* One build step: BuildStep.pre / _execute / post / always_post around the  *)
(* version files.                                                           *)

\* Build step types: those of the version files, one whose handler only
\* vjer defines (flit) and one whose handler only cicd-scripts defines.
BuildStepTypes == VersionStepTypes \cup {"flit", "msbuild"}

\* A BuildStep executor that was handed its step_info.
InitBuild ==
    /\ gen \in Generations
    /\ action_type = "build"
    /\ step_class = "BuildStep"
    /\ step_info \in [type : BuildStepTypes, ignore : {FALSE}, is_first_step : BOOLEAN]
    /\ declared = NoSteps
    /\ steps = <<>>
    /\ idx = 0
    /\ cur = 0
    /\ is_first_step = step_info.is_first_step
    /\ pc = "pre"
    /\ err = "none"
    /\ exit = "running"
    /\ trace = <<>>
    /\ assigned = <<>>
    /\ effects = {}
    /\ failed = {}
    /\ version_files \in SeqsUpTo(Paths, MaxVF)
    /\ set_app_version \in BOOLEAN
    /\ project_version = PROJECT_VERSION
    /\ fs \in [Paths -> {NoFile} \cup {File(InitialContent(p)) : p \in Paths}]
    /\ \A p \in Paths : fs[p].exists => fs[p].content = InitialContent(p)
    /\ orig = [p \in Paths |-> NoFile]
    /\ pristine = fs
    /\ before = [fs |-> fs, orig |-> orig]
    /\ calls = <<>>
    /\ ConfigIdle

\* BuildStep.pre: the artifact directory on the first step (rmpath and mkdir
\* can fail), then update_version_files().
BuildPre ==
    /\ pc = "pre"
    /\ trace' = trace \o PreEvents(step_class, step_info, cur)
    /\ \E setup_raised \in (IF step_info.is_first_step THEN BOOLEAN ELSE {FALSE}) :
          IF setup_raised
          THEN /\ err' = "error"
               /\ pc' = ActionExecuteNext("pre", TRUE)
               /\ UNCHANGED <<version_files, fs, orig, before, calls>>
          ELSE /\ CallVersionFiles(FALSE)
               /\ LET raised == calls'[Len(calls')].raised # "none"
                  IN  /\ err' = IF raised THEN "error" ELSE "none"
                      /\ pc' = ActionExecuteNext("pre", raised)
    /\ failed' = IF err' = "none" THEN failed ELSE failed \cup {cur}
    /\ UNCHANGED <<gen, action_type, step_class, declared, steps, idx, cur,
                   is_first_step, step_info, exit, assigned, effects>>
    /\ UNCHANGED <<set_app_version, project_version, pristine>>
    /\ UNCHANGED config_vars

\* BuildStep.always_post: update_version_files(reset=True); then the
\* exception in flight, if any, leaves execute().
BuildAlwaysPost ==
    /\ pc = "always_post"
    /\ trace' = Append(trace, Event("always_post", cur))
    /\ CallVersionFiles(TRUE)
    /\ pc' = "done"
    /\ exit' = CASE err = "exit" -> "sys_exit"
                 [] err = "error" -> "raised"
                 [] calls'[Len(calls')].raised # "none" -> "raised"
                 [] OTHER -> "returned"
    /\ err' = "none"
    /\ UNCHANGED <<gen, action_type, step_class, declared, steps, idx, cur,
                   is_first_step, step_info, assigned, effects, failed>>
    /\ UNCHANGED <<set_app_version, project_version, pristine>>
    /\ UNCHANGED config_vars

NextBuild ==
    \/ BuildPre
    \/ StepExecute
    \/ StepPost
    \/ BuildAlwaysPost

SpecBuild == InitBuild /\ [][NextBuild]_vars

-----------------------------------------------------------------------------
(* Calls made on one ConfigSection.                                         *)

\* The runner and the version files while a configuration object is at work.
RunnerIdle ==
    /\ action_type = "none"
    /\ step_class = "none"
    /\ declared = NoSteps
    /\ steps = <<>>
    /\ idx = 0
    /\ cur = 0
    /\ is_first_step = TRUE
    /\ step_info = NoExecutor
    /\ pc = "config"
    /\ err = "none"
    /\ exit = "running"
    /\ trace = <<>>
    /\ assigned = <<>>
    /\ effects = {}
    /\ failed = {}

FilesIdle ==
    /\ version_files = <<>>
    /\ set_app_version = FALSE
    /\ project_version = PROJECT_VERSION
    /\ fs = [p \in Paths |-> NoFile]
    /\ orig = [p \in Paths |-> NoFile]
    /\ pristine = fs
    /\ before = [fs |-> fs, orig |-> orig]
    /\ calls = <<>>

\* ConfigSection(**defaults), as ProjectConfig.__init__ constructs them.
InitSection ==
    /\ gen \in Generations
    /\ RunnerIdle
    /\ FilesIdle
    /\ \E defaults \in Layers : section = NewSection(defaults)
    /\ sec_before = section
    /\ sec_last = NoCall
    /\ ProjectIdle
    /\ WorldIdle

\* section.attr = value
SectionSet ==
    /\ \E attr \in SectionKeys, value \in SectionVals :
          /\ section' = section_set(section, attr, value)
          /\ sec_last' = [op |-> "set", attr |-> attr, value |-> value,
                          mapping |-> EmptyLayer]
    /\ sec_before' = section
    /\ UNCHANGED <<runner_vars, file_vars, project_vars, world_vars>>

\* section.update(mapping)
SectionUpdate ==
    /\ \E mapping \in Mappings :
          /\ section' = section_update(section, mapping)
          /\ sec_last' = [op |-> "update", attr |-> "none", value |-> Absent,
                          mapping |-> mapping]
    /\ sec_before' = section
    /\ UNCHANGED <<runner_vars, file_vars, project_vars, world_vars>>

\* section.update_defaults(mapping)
SectionUpdateDefaults ==
    /\ \E mapping \in Mappings :
          /\ section' = section_update_defaults(section, mapping)
          /\ sec_last' = [op |-> "update_defaults", attr |-> "none", value |-> Absent,
                          mapping |-> mapping]
    /\ sec_before' = section
    /\ UNCHANGED <<runner_vars, file_vars, project_vars, world_vars>>

NextSection ==
    \/ SectionSet
    \/ SectionUpdate
    \/ SectionUpdateDefaults

SpecSection == InitSection /\ [][NextSection]_vars

-----------------------------------------------------------------------------
(* Construction of ProjectConfig, write() and the runner that needs it.     *)

InitConfig ==
    /\ gen \in Generations
    /\ RunnerIdle
    /\ FilesIdle
    /\ SectionIdle
    /\ WorldIdle
    /\ \E doc \in Documents :
          cfg_disk = [p \in CfgPaths |-> IF p = PROJECT_CFG_FILE THEN doc ELSE NoDocument]
    /\ environ \in [BUILD_NUM : {Absent, "42"}, VERSION : {ENV_VERSION, "2.0.0.1"}]
    /\ config = NoConfig
    /\ loads = <<>>
    /\ phase_runs = 0

\* ProjectConfig(): in a process whose earlier construction did not fail.
ConfigConstruct ==
    /\ config.state # "failed"
    /\ Len(loads) < MaxConfigCalls
    /\ config' = project_config(gen, cfg_disk, environ)
    /\ loads' = Append(loads, [op |-> "construct", raised |-> config'.raised,
                               schema |-> config'.schema,
                               snapshot |-> Snapshot(config')])
    /\ UNCHANGED <<cfg_disk, environ, phase_runs>>
    /\ UNCHANGED <<runner_vars, file_vars, section_vars, world_vars>>

\* config.write()
ConfigWrite ==
    /\ config.state = "built"
    /\ Len(loads) < MaxConfigCalls
    /\ cfg_disk' = [cfg_disk EXCEPT ![config.config_file] = written_document(config)]
    /\ loads' = Append(loads, [op |-> "write", raised |-> "none",
                               schema |-> config.schema,
                               snapshot |-> Snapshot(config)])
    /\ UNCHANGED <<environ, config, phase_runs>>
    /\ UNCHANGED <<runner_vars, file_vars, section_vars, world_vars>>

\* CICDAction(...).execute() / VjerAction(...).execute(): __init__ built the
\* ProjectConfig, so execute() is reached only when that did not raise.
ConfigExecute ==
    /\ config.state = "built"
    /\ phase_runs = 0
    /\ phase_runs' = 1
    /\ UNCHANGED <<cfg_disk, environ, config, loads>>
    /\ UNCHANGED <<runner_vars, file_vars, section_vars, world_vars>>

NextConfig ==
    \/ ConfigConstruct
    \/ ConfigWrite
    \/ ConfigExecute

SpecConfig == InitConfig /\ [][NextConfig]_vars

-----------------------------------------------------------------------------
(* The handlers of ReleaseStep and PreReleaseStep, one executor per step.   *)

\* Mutant: PreReleaseStep does not override the class attribute.
IsPreRelease_Inherited(cls) == FALSE

\* is_pre_release of the step class.
IsPreRelease(cls) == cls = "PreReleaseStep"

\* version.split('.'), the last piece replaced by str(int(piece) + 1),
\* '.'.join of the pieces.
increment_version(version) ==
    LET pieces == Components(version)
        n == Len(pieces)
        last == CASE pieces[n] = "0" -> "1" [] pieces[n] = "1" -> "2"
                  [] pieces[n] = "2" -> "3" [] pieces[n] = "3" -> "4"
                  [] pieces[n] = "4" -> "5" [] pieces[n] = "5" -> "6"
                  [] pieces[n] = "6" -> "7" [] pieces[n] = "7" -> "8"
                  [] pieces[n] = "8" -> "9" [] pieces[n] = "9" -> "10"
        joined[k \in 1..n] ==
            IF k = 1 THEN pieces[1]
            ELSE joined[k - 1] \o "." \o (IF k = n THEN last ELSE pieces[k])
    IN  joined[n]

\* The executor's own ProjectConfig: CICDStep.__init__ / VjerStep.__init__
\* construct one, PreReleaseStep.__init__ then sets project.version to
\* f'{version}-{pre_release_num}' with pre_release_num = build.build_num.
executor_config(g, cls, disk, env) ==
    LET cfg == project_config(g, disk, env)
    IN  IF cfg.state = "built" /\ IsPreRelease(cls)
        THEN [cfg EXCEPT !.sections["project"] =
                 section_set(@, "version",
                     Read(@, "version") \o "-" \o Read(cfg.sections["build"], "build_num"))]
        ELSE cfg

\* A release or pre-release process over a loadable document.
InitRelease ==
    /\ gen \in Generations
    /\ action_type = "release"
    /\ step_class \in {"ReleaseStep", "PreReleaseStep"}
    /\ declared = NoSteps
    /\ steps = <<>>
    /\ idx = 0
    /\ cur = 0
    /\ is_first_step = TRUE
    /\ step_info = NoExecutor
    /\ pc = "construct"
    /\ err = "none"
    /\ exit = "running"
    /\ trace = <<>>
    /\ assigned = <<>>
    /\ effects = {}
    /\ failed = {}
    /\ FilesIdle
    /\ SectionIdle
    /\ WorldIdle
    /\ \E doc \in MappingDocuments :
          /\ SchemaSupported(gen, YamlAsDictSchema(doc))
          /\ doc.sections["project"].map["name"] = "app"
          /\ \A s \in {"build", "release", "deploy"} : ~doc.sections[s].present
          /\ cfg_disk = [p \in CfgPaths |-> IF p = PROJECT_CFG_FILE THEN doc ELSE NoDocument]
    /\ environ \in [BUILD_NUM : {Absent, "42"}, VERSION : {ENV_VERSION}]
    /\ config = NoConfig
    /\ loads = <<>>
    /\ phase_runs = 0

\* The runner constructs the executor of the next step and hands it the
\* step; an error of the construction ends the process.
ReleaseConstruct ==
    /\ pc = "construct"
    /\ idx < MaxExecutors
    /\ idx' = idx + 1
    /\ config' = executor_config(gen, step_class, cfg_disk, environ)
    /\ loads' = Append(loads, [op |-> "construct", raised |-> config'.raised,
                               schema |-> config'.schema,
                               snapshot |-> Snapshot(config')])
    /\ IF config'.state = "built"
       THEN /\ \E type \in {t \in {"tag_source", "gitlab", "increment_release", "docker", "helm"} :
                                MethodDefined(gen, step_class, action_method(step_class, t))},
                  tags \in BOOLEAN, extra_versions \in BOOLEAN :
                  /\ tags => type = "docker"
                  /\ extra_versions => (type = "helm" /\ gen = "vjer" /\ IsPreRelease(step_class))
                  /\ step_info' = [type |-> type, ignore |-> FALSE, is_first_step |-> idx = 0,
                                   tags |-> tags, extra_versions |-> extra_versions]
            /\ pc' = "exec"
            /\ exit' = exit
       ELSE /\ step_info' = NoExecutor
            /\ pc' = "done"
            /\ exit' = IF config'.raised = "SystemExit" THEN "sys_exit" ELSE "raised"
    /\ UNCHANGED <<gen, action_type, step_class, declared, steps, cur, is_first_step,
                   err, trace, assigned, effects, failed>>
    /\ UNCHANGED <<cfg_disk, environ, phase_runs>>
    /\ UNCHANGED <<file_vars, section_vars, world_vars>>

\* release_tag_source
ReleaseTagSource ==
    /\ pc = "exec"
    /\ step_info.type = "tag_source"
    /\ \E ok \in BOOLEAN :
          /\ remote' = IF IsPreRelease(step_class) \/ ~ok THEN remote
                        ELSE remote \cup {[op |-> "tag_source",
                                           arg |-> Read(config.sections["release"], "release_tag")]}
          /\ pc' = IF ok \/ IsPreRelease(step_class) THEN "construct" ELSE "done"
          /\ exit' = IF pc' = "done" THEN "raised" ELSE exit
    /\ UNCHANGED <<gen, action_type, step_class, declared, steps, idx, cur, is_first_step,
                   step_info, err, trace, assigned, effects, failed>>
    /\ UNCHANGED <<file_vars, section_vars, frames, project_vars, workdirs, tmpdirs, oplog>>

\* release_gitlab (cicd-scripts)
ReleaseGitlab ==
    /\ pc = "exec"
    /\ step_info.type = "gitlab"
    /\ \E ok \in BOOLEAN :
          /\ remote' = IF IsPreRelease(step_class) \/ ~ok THEN remote
                        ELSE remote \cup {[op |-> "gitlab_release",
                                           arg |-> Read(config.sections["release"], "release_tag")]}
          /\ pc' = IF ok \/ IsPreRelease(step_class) THEN "construct" ELSE "done"
          /\ exit' = IF pc' = "done" THEN "raised" ELSE exit
    /\ UNCHANGED <<gen, action_type, step_class, declared, steps, idx, cur, is_first_step,
                   step_info, err, trace, assigned, effects, failed>>
    /\ UNCHANGED <<file_vars, section_vars, frames, project_vars, workdirs, tmpdirs, oplog>>

\* release_increment_release: skip on pre-release and when the project has
\* a version_service attribute; else set the version, and commit_files()
\* pulls, calls config.write() and checks the document in.
ReleaseIncrementRelease ==
    /\ pc = "exec"
    /\ step_info.type = "increment_release"
    /\ IF IsPreRelease(step_class) \/ HasAttr(config.sections["project"], "version_service")
       THEN /\ pc' = "construct"
            /\ UNCHANGED <<config, cfg_disk, loads, remote, exit>>
       ELSE \E outcome \in {"ok", "pull_failed", "checkin_failed"} :
               LET new_version == increment_version(Read(config.sections["project"], "version"))
               IN  /\ config' = [config EXCEPT !.sections["project"] =
                                     section_set(@, "version", new_version)]
                   /\ cfg_disk' = IF outcome = "pull_failed" THEN cfg_disk
                                   ELSE [cfg_disk EXCEPT ![config.config_file] =
                                            written_document(config')]
                   /\ loads' = IF outcome = "pull_failed" THEN loads
                                ELSE Append(loads, [op |-> "write", raised |-> "none",
                                                    schema |-> config.schema,
                                                    snapshot |-> Snapshot(config')])
                   /\ remote' = IF outcome = "ok"
                                 THEN remote \cup {[op |-> "commit", arg |-> new_version]}
                                 ELSE remote
                   /\ pc' = IF outcome = "ok" THEN "construct" ELSE "done"
                   /\ exit' = IF outcome = "ok" THEN exit ELSE "raised"
    /\ UNCHANGED <<gen, action_type, step_class, declared, steps, idx, cur, is_first_step,
                   step_info, err, trace, assigned, effects, failed>>
    /\ UNCHANGED <<environ, phase_runs>>
    /\ UNCHANGED <<file_vars, section_vars, frames, workdirs, tmpdirs, oplog>>

\* release_docker: the tags of the step, or the version tag and, on a
\* release, 'latest'.
ReleaseDocker ==
    /\ pc = "exec"
    /\ step_info.type = "docker"
    /\ LET version_tag == "app:" \o Read(config.sections["project"], "version")
           default_tags == {version_tag} \cup
                               (IF IsPreRelease(step_class) THEN {} ELSE {"app:latest"})
           tags == IF step_info.tags THEN {"app:custom"} ELSE default_tags
       IN  \E ok \in BOOLEAN :
              /\ remote' = IF ok THEN remote \cup {[op |-> "image_tag", arg |-> t] : t \in tags}
                            ELSE remote
              /\ pc' = IF ok THEN "construct" ELSE "done"
              /\ exit' = IF ok THEN exit ELSE "raised"
    /\ UNCHANGED <<gen, action_type, step_class, declared, steps, idx, cur, is_first_step,
                   step_info, err, trace, assigned, effects, failed>>
    /\ UNCHANGED <<file_vars, section_vars, frames, project_vars, workdirs, tmpdirs, oplog>>

\* release_helm: ReleaseStep pushes the chart; PreReleaseStep of
\* cicd-scripts wraps the push in 'except CMDError' and raises again unless
\* the error lines contain 'Error: 409'; PreReleaseStep of Vjer pushes
\* without a try and pushes once more for each of extra_versions.
ReleaseHelm ==
    /\ pc = "exec"
    /\ step_info.type = "helm"
    /\ \E result \in {"ok", "Error: 409", "Error: 500"} :
          LET caught == gen = "cicd" /\ IsPreRelease(step_class) /\ result = "Error: 409"
              raised == result # "ok" /\ ~caught
              pushed == IF result = "ok"
                        THEN {[op |-> "chart_push",
                               arg |-> Read(config.sections["project"], "version")]}
                        ELSE {}
          IN  /\ trace' = trace \o <<Event(result, idx),
                                      Event(IF raised THEN "raised" ELSE "completed", idx)>>
              /\ IF result = "ok" /\ step_info.extra_versions
                 THEN /\ config' = [config EXCEPT !.sections["project"] =
                                        section_set(@, "version", EXTRA_VERSION)]
                      /\ remote' = remote \cup pushed \cup
                                       {[op |-> "chart_push", arg |-> EXTRA_VERSION]}
                 ELSE /\ config' = config
                      /\ remote' = remote \cup pushed
              /\ pc' = IF raised THEN "done" ELSE "construct"
              /\ exit' = IF raised THEN "raised" ELSE exit
    /\ UNCHANGED <<gen, action_type, step_class, declared, steps, idx, cur, is_first_step,
                   step_info, err, assigned, effects, failed>>
    /\ UNCHANGED <<cfg_disk, environ, loads, phase_runs>>
    /\ UNCHANGED <<file_vars, section_vars, frames, workdirs, tmpdirs, oplog>>

NextRelease ==
    \/ ReleaseConstruct
    \/ ReleaseTagSource
    \/ ReleaseGitlab
    \/ ReleaseIncrementRelease
    \/ ReleaseDocker
    \/ ReleaseHelm

SpecRelease == InitRelease /\ [][NextRelease]_vars

-----------------------------------------------------------------------------
(* Helpers a handler calls: publish_package, create_archive,                *)
(* get_stored_artifact, qb_deploy.  Each call is one action; an error or a  *)
(* fatal exit ends the process.                                             *)

\* Mutant: the directory is removed after the try block, not in a finally.
finally_rmpath_AfterTry(dirs, d, outcome) == IF outcome = "ok" THEN dirs \ {d} ELSE dirs

\* 'finally: rmpath(tempdir)': whatever the try block did.
finally_rmpath(dirs, d, outcome) == dirs \ {d}

\* Mutant: the list of validation errors is not consulted.
validation_errors_Ignored(components, rollback) == {}

\* The validation loop of qb_deploy: the components whose rollback build
\* is missing (rollback), or whose latest build in the source environment
\* is not the requested one (deploy).
validation_errors(components, rollback) ==
    {k \in DOMAIN components :
        IF rollback THEN ~components[k].rollback_build
        ELSE components[k].source_build_num # components[k].build_num}

RECURSIVE qb_deploy_calls(_, _, _)
\* The deployment loop of qb_deploy from component k on: for each component
\* qb_deploy_component for the target, then for its extra environment; a
\* skipped target makes no call, a result other than SUCCESSFUL is
\* sys_exit(1).  The promote / rollback calls made, and how the loop ended.
qb_deploy_calls(components, k, rollback) ==
    IF k > Len(components) THEN [calls |-> <<>>, exit |-> "none"]
    ELSE LET c == components[k]
             method == IF rollback THEN "rollback" ELSE "promote"
             envs == (IF c.skip_target THEN <<>> ELSE <<"target">>)
                        \o (IF c.extra_environment THEN <<"extra">> ELSE <<>>)
             call(e) == [method |-> method, component |-> k, env |-> e, result |-> c.result]
             rest == qb_deploy_calls(components, k + 1, rollback)
         IN  IF envs # <<>> /\ c.result # "SUCCESSFUL"
             THEN [calls |-> <<call(envs[1])>>, exit |-> "sys_exit"]
             ELSE [calls |-> [i \in DOMAIN envs |-> call(envs[i])] \o rest.calls,
                   exit |-> rest.exit]

PackageNames == {"app.tgz", "lib.tgz"}

\* The QuickBuild components of the model: one that validates and deploys,
\* one that fails validation, one whose promotion fails, one whose target
\* is skipped, one with an extra environment.
QbComponents ==
    LET good == [build_num |-> 7, source_build_num |-> 7, rollback_build |-> TRUE,
                 skip_target |-> FALSE, extra_environment |-> FALSE,
                 result |-> "SUCCESSFUL"]
    IN  {good,
         [good EXCEPT !.source_build_num = 8, !.rollback_build = FALSE],
         [good EXCEPT !.result = "FAILED"],
         [good EXCEPT !.skip_target = TRUE],
         [good EXCEPT !.extra_environment = TRUE]}

\* A step of cicd-scripts or Vjer that calls its helpers; some packages
\* are in remote storage already.
InitSteps ==
    /\ gen \in Generations
    /\ RunnerIdle
    /\ FilesIdle
    /\ SectionIdle
    /\ ProjectIdle
    /\ remote \in SUBSET {[op |-> "store", arg |-> n] : n \in PackageNames}
    /\ workdirs = <<>>
    /\ tmpdirs = {}
    /\ oplog = <<>>
    /\ frames = <<>>

\* publish_package: pushd, the existence test, DUPLICATE_PUBLISH, pack of a
\* directory, popd, store.
PublishPackage ==
    /\ gen = "cicd"
    /\ pc = "config"
    /\ idx < MaxHelperCalls
    /\ idx' = idx + 1
    /\ \E name \in PackageNames, exists_ok \in BOOLEAN, is_dir \in BOOLEAN,
          fault \in {"none", "exists", "pack", "store"} :
          LET pushed == Append(workdirs, "artifacts_dir")
              existed == [op |-> "store", arg |-> name] \in remote
              duplicate == fault # "exists" /\ existed /\ ~exists_ok
              packed == fault # "exists" /\ ~duplicate /\ is_dir
              pack_failed == packed /\ fault = "pack"
              popped == fault # "exists" /\ ~duplicate /\ ~pack_failed
              stored == popped /\ fault # "store"
              raised == CASE fault = "exists" -> "HTTPError"
                          [] duplicate -> "DUPLICATE_PUBLISH"
                          [] pack_failed -> "PackError"
                          [] ~stored -> "HTTPError"
                          [] OTHER -> "none"
          IN  /\ workdirs' = IF popped THEN SubSeq(pushed, 1, Len(pushed) - 1) ELSE pushed
              /\ remote' = IF stored THEN remote \cup {[op |-> "store", arg |-> name]}
                            ELSE remote
              /\ oplog' = <<[call |-> "publish_package", name |-> name,
                                         exists_ok |-> exists_ok, existed |-> existed,
                                         packed |-> packed, store_called |-> popped,
                                         raised |-> raised]>>
              /\ pc' = IF raised = "none" THEN pc ELSE "done"
    /\ UNCHANGED <<gen, action_type, step_class, declared, steps, cur, is_first_step,
                   step_info, err, exit, trace, assigned, effects, failed>>
    /\ UNCHANGED <<file_vars, section_vars, frames, project_vars, tmpdirs>>

\* create_archive: mkdtemp when use_tmpdir, pack and copyfile in a try,
\* rmpath of the temporary directory in its finally.
CreateArchive ==
    /\ pc = "config"
    /\ idx < MaxHelperCalls
    /\ idx' = idx + 1
    /\ \E use_tmpdir \in BOOLEAN, outcome \in {"ok", "pack_failed", "copyfile_failed"} :
          LET package_dir == IF use_tmpdir THEN idx + 1 ELSE 0
              made == IF use_tmpdir THEN tmpdirs \cup {package_dir} ELSE tmpdirs
          IN  /\ tmpdirs' = IF use_tmpdir THEN finally_rmpath(made, package_dir, outcome)
                             ELSE made
              /\ oplog' = <<[call |-> "create_archive", use_tmpdir |-> use_tmpdir,
                                         raised |-> outcome]>>
              /\ pc' = IF outcome = "ok" THEN pc ELSE "done"
    /\ UNCHANGED <<gen, action_type, step_class, declared, steps, cur, is_first_step,
                   step_info, err, exit, trace, assigned, effects, failed>>
    /\ UNCHANGED <<file_vars, section_vars, frames, project_vars, remote, workdirs>>

\* get_stored_artifact: mkdtemp, then in a try the existence test,
\* REMOTE_FILE_NOT_FOUND, retrieve and unpack; rmpath in its finally.
GetStoredArtifact ==
    /\ gen = "cicd"
    /\ pc = "config"
    /\ idx < MaxHelperCalls
    /\ idx' = idx + 1
    /\ \E name \in PackageNames, fault \in {"none", "exists", "retrieve", "unpack"} :
          LET tempdir == idx + 1
              found == [op |-> "store", arg |-> name] \in remote
              outcome == CASE fault = "exists" -> "HTTPError"
                           [] ~found -> "REMOTE_FILE_NOT_FOUND"
                           [] fault = "retrieve" -> "HTTPError"
                           [] fault = "unpack" -> "UnpackError"
                           [] OTHER -> "ok"
          IN  /\ tmpdirs' = finally_rmpath(tmpdirs \cup {tempdir}, tempdir, outcome)
              /\ oplog' = <<[call |-> "get_stored_artifact", name |-> name,
                                         raised |-> outcome]>>
              /\ pc' = IF outcome = "ok" THEN pc ELSE "done"
    /\ UNCHANGED <<gen, action_type, step_class, declared, steps, cur, is_first_step,
                   step_info, err, exit, trace, assigned, effects, failed>>
    /\ UNCHANGED <<file_vars, section_vars, frames, project_vars, remote, workdirs>>

\* qb_deploy: validate every component, sys_exit(1) on any validation
\* error, else deploy the components in list order.
QbDeploy ==
    /\ gen = "cicd"
    /\ pc = "config"
    /\ idx < MaxHelperCalls
    /\ idx' = idx + 1
    /\ \E rollback \in BOOLEAN,
          components \in SeqsUpTo(QbComponents, MaxComponents) :
          LET invalid == validation_errors(components, rollback)
              deployed == qb_deploy_calls(components, 1, rollback)
              exited == invalid # {} \/ deployed.exit = "sys_exit"
          IN  /\ remote' = IF invalid # {} THEN remote
                            ELSE remote \cup {[op |-> deployed.calls[i].method,
                                               arg |-> deployed.calls[i].component] :
                                                  i \in DOMAIN deployed.calls}
              /\ oplog' = <<[call |-> "qb_deploy", rollback |-> rollback,
                                         components |-> components,
                                         made |-> IF invalid # {} THEN <<>> ELSE deployed.calls,
                                         raised |-> IF exited THEN "SystemExit" ELSE "ok"]>>
              /\ pc' = IF exited THEN "done" ELSE pc
              /\ exit' = IF exited THEN "sys_exit" ELSE exit
    /\ UNCHANGED <<gen, action_type, step_class, declared, steps, cur, is_first_step,
                   step_info, err, trace, assigned, effects, failed>>
    /\ UNCHANGED <<file_vars, section_vars, frames, project_vars, workdirs, tmpdirs>>

NextSteps ==
    \/ PublishPackage
    \/ CreateArchive
    \/ GetStoredArtifact
    \/ QbDeploy

SpecSteps == InitSteps /\ [][NextSteps]_vars

-----------------------------------------------------------------------------
(* deploy_umbrella: a deploy step that runs a deploy action for each        *)
(* component of the project, inside the process of the outer action.        *)

\* A lifecycle event of entry k of the runner at nesting depth d.
FrameEvent(name, k, d) == [ev |-> name, i |-> k, depth |-> d]

\* The deploy action of an umbrella project: the document at
\* PROJECT_CFG_FILE declares the umbrella step and the components, each
\* component has its own document with a helm step.
InitUmbrella ==
    /\ gen = "cicd"
    /\ RunnerIdle
    /\ FilesIdle
    /\ SectionIdle
    /\ \E outer \in UNION {[1..n -> {"helm", "umbrella"}] : n \in 1..MaxSteps},
          components \in {<<>>, <<"c1.yml">>, <<"c2.yml">>, <<"c1.yml", "c2.yml">>} :
          cfg_disk = [p \in {PROJECT_CFG_FILE, "c1.yml", "c2.yml"} |->
                         IF p = PROJECT_CFG_FILE
                         THEN [steps |-> outer, components |-> components]
                         ELSE [steps |-> <<"helm">>, components |-> <<>>]]
    /\ environ = [PROJECT_CFG |-> Absent]
    /\ config = NoConfig
    /\ loads = <<>>
    /\ phase_runs = 0
    /\ remote = {}
    /\ workdirs = <<>>
    /\ tmpdirs = {}
    /\ oplog = <<>>
    /\ frames = <<[config_file |-> PROJECT_CFG_FILE, steps |-> cfg_disk[PROJECT_CFG_FILE].steps,
                   idx |-> 0, stage |-> "loop", component |-> 0]>>

\* One pass of the runner's loop for a step that is not an umbrella step:
\* executor.execute() from pre to always_post.
UmbrellaPlainStep ==
    /\ frames # <<>>
    /\ LET d == Len(frames)
           top == frames[d]
       IN  /\ top.stage = "loop"
           /\ top.idx < Len(top.steps)
           /\ top.steps[top.idx + 1] # "umbrella"
           /\ trace' = trace \o [j \in 1..4 |->
                           FrameEvent(<<"pre", "handler", "post", "always_post">>[j],
                                      top.idx + 1, d)]
           /\ frames' = [frames EXCEPT ![d].idx = top.idx + 1]
    /\ UNCHANGED <<gen, action_type, step_class, declared, steps, idx, cur, is_first_step,
                   step_info, pc, err, exit, assigned, effects, failed>>
    /\ UNCHANGED <<file_vars, section_vars, project_vars, remote, workdirs, tmpdirs, oplog>>

\* The umbrella step starts: pre(), then _execute() calls deploy_umbrella.
UmbrellaBegin ==
    /\ frames # <<>>
    /\ LET d == Len(frames)
           top == frames[d]
       IN  /\ top.stage = "loop"
           /\ top.idx < Len(top.steps)
           /\ top.steps[top.idx + 1] = "umbrella"
           /\ trace' = trace \o <<FrameEvent("pre", top.idx + 1, d),
                                   FrameEvent("handler", top.idx + 1, d)>>
           /\ frames' = [frames EXCEPT ![d].stage = "umbrella", ![d].component = 0]
    /\ UNCHANGED <<gen, action_type, step_class, declared, steps, idx, cur, is_first_step,
                   step_info, pc, err, exit, assigned, effects, failed>>
    /\ UNCHANGED <<file_vars, section_vars, project_vars, remote, workdirs, tmpdirs, oplog>>

\* One pass of the loop of deploy_umbrella: os.environ[PROJECT_CFG_VAR] is
\* set to the component's document, then CICDAction('deploy', DeployStep)
\* is constructed and executed.  Its ProjectConfig loads
\* project_root / PROJECT_CFG_FILE, the module constant that was read from
\* the environment when utils was imported.
UmbrellaNested ==
    /\ frames # <<>>
    /\ Len(frames) < MaxDepth
    /\ LET d == Len(frames)
           top == frames[d]
           components == cfg_disk[top.config_file].components
       IN  /\ top.stage = "umbrella"
           /\ top.component < Len(components)
           /\ environ' = [environ EXCEPT !.PROJECT_CFG = components[top.component + 1]]
           /\ frames' = Append([frames EXCEPT ![d].component = top.component + 1],
                               [config_file |-> PROJECT_CFG_FILE,
                                steps |-> cfg_disk[PROJECT_CFG_FILE].steps,
                                idx |-> 0, stage |-> "loop", component |-> 0])
    /\ UNCHANGED <<gen, action_type, step_class, declared, steps, idx, cur, is_first_step,
                   step_info, pc, err, exit, trace, assigned, effects, failed>>
    /\ UNCHANGED <<cfg_disk, config, loads, phase_runs>>
    /\ UNCHANGED <<file_vars, section_vars, remote, workdirs, tmpdirs, oplog>>

\* deploy_umbrella has gone through the components: the handler returns,
\* post() and always_post() of the umbrella step run.
UmbrellaEnd ==
    /\ frames # <<>>
    /\ LET d == Len(frames)
           top == frames[d]
       IN  /\ top.stage = "umbrella"
           /\ top.component = Len(cfg_disk[top.config_file].components)
           /\ trace' = trace \o <<FrameEvent("post", top.idx + 1, d),
                                   FrameEvent("always_post", top.idx + 1, d)>>
           /\ frames' = [frames EXCEPT ![d].stage = "loop", ![d].idx = top.idx + 1]
    /\ UNCHANGED <<gen, action_type, step_class, declared, steps, idx, cur, is_first_step,
                   step_info, pc, err, exit, assigned, effects, failed>>
    /\ UNCHANGED <<file_vars, section_vars, project_vars, remote, workdirs, tmpdirs, oplog>>

\* The loop of a runner is exhausted: its execute() returns, to
\* deploy_umbrella of the runner around it or to main().
UmbrellaReturn ==
    /\ frames # <<>>
    /\ LET d == Len(frames)
           top == frames[d]
       IN  /\ top.stage = "loop"
           /\ top.idx = Len(top.steps)
           /\ frames' = SubSeq(frames, 1, d - 1)
           /\ exit' = IF d = 1 THEN "returned" ELSE exit
    /\ UNCHANGED <<gen, action_type, step_class, declared, steps, idx, cur, is_first_step,
                   step_info, pc, err, trace, assigned, effects, failed>>
    /\ UNCHANGED <<file_vars, section_vars, project_vars, remote, workdirs, tmpdirs, oplog>>

NextUmbrella ==
    \/ UmbrellaPlainStep
    \/ UmbrellaBegin
    \/ UmbrellaNested
    \/ UmbrellaEnd
    \/ UmbrellaReturn

SpecUmbrella == InitUmbrella /\ [][NextUmbrella]_vars

-----------------------------------------------------------------------------
(* Properties of the Action runner and the step lifecycle.                  *)

LifecycleEvents ==
    {"construct", "pre", "no_method", "not_callable", "handler", "post", "always_post"}

Positions(name, k) == {p \in DOMAIN trace : trace[p] = Event(name, k)}
Count(name, k) == Cardinality(Positions(name, k))

\* Events of steps after entry k.
LaterLifecycle(k) ==
    {p \in DOMAIN trace : trace[p].i > k /\ trace[p].ev \in LifecycleEvents}

\* C1: steps run strictly one after another in declared order: events are
\* ordered by the position of their step in the list, and between a
\* lifecycle event of step k and any event of a later step lies the
\* always_post of step k.
C1_SequentialSteps ==
    \A p, q \in DOMAIN trace :
        p < q =>
            /\ trace[p].i <= trace[q].i
            /\ (trace[p].i < trace[q].i /\ trace[p].ev \in LifecycleEvents) =>
                   \E r \in p..(q - 1) : trace[r] = Event("always_post", trace[p].i)

\* Two steps have run their whole lifecycle one after the other.
C1_Witness ==
    /\ exit = "returned"
    /\ \E j, k \in DOMAIN steps :
          j < k /\ Count("always_post", j) = 1 /\ Count("always_post", k) = 1

\* C2: always_post of a started step runs exactly once before a later step
\* starts or the process terminates, whatever the exit path.
C2_AlwaysPostOnce ==
    \A k \in DOMAIN steps :
        /\ Count("always_post", k) <= 1
        /\ (Count("pre", k) >= 1 /\ (exit # "running" \/ LaterLifecycle(k) # {}))
               => Count("always_post", k) = 1

\* The process ended through the fatal exit of a missing handler, after the
\* always_post of that step.
C2_Witness ==
    /\ exit = "sys_exit"
    /\ \E k \in DOMAIN steps : Count("no_method", k) = 1 /\ Count("always_post", k) = 1

\* C3: once the lifecycle of step k has raised, no later step is started,
\* and the side effects committed by the steps before k are still there.
C3_FailFast ==
    \A k \in failed :
        /\ LaterLifecycle(k) = {}
        /\ \A j \in 1..(k - 1) : Count("handler", j) = 1 => j \in effects

\* A handler failed in a step that has steps before and after it, and the
\* process has ended.
C3_Witness ==
    /\ exit = "raised"
    /\ \E k \in failed :
          /\ k < Len(steps)
          /\ Count("handler", k) = 1
          /\ \E j \in 1..(k - 1) : j \in effects

HandlerDefinedFor(k) ==
    MethodDefined(gen, step_class, action_method(step_class, steps[k].type))

\* C4: a step without a handler {phase}_{type} aborts the phase with a
\* non-zero exit, no handler runs for it, no later step runs, and the
\* handler check passes exactly when the handler method is defined.
C4_FatalHandlerMiss ==
    \A k \in DOMAIN steps :
        (Count("no_method", k) + Count("not_callable", k) + Count("handler", k) >= 1) =>
            /\ (Count("no_method", k) = 0) <=> HandlerDefinedFor(k)
            /\ ~HandlerDefinedFor(k) =>
                   /\ Count("handler", k) = 0
                   /\ LaterLifecycle(k) = {}
                   /\ exit \in {"running", "sys_exit", "raised"}

\* Position of the first entry whose ignore flag is falsy (0 when none).
FirstUnignored(list) ==
    IF \E k \in DOMAIN list : ~list[k].ignore
    THEN CHOOSE k \in DOMAIN list :
             ~list[k].ignore /\ \A j \in DOMAIN list : ~list[j].ignore => k <= j
    ELSE 0

\* C5: is_first_step is true for the first entry whose ignore flag is falsy
\* and for no other entry that reaches an executor.
C5_FirstStepGating ==
    \A p \in DOMAIN assigned :
        LET k == assigned[p].i
        IN  (Count("construct", k) = 1 \/ k = FirstUnignored(steps)) =>
                (assigned[p].first <=> k = FirstUnignored(steps))

\* C6: for an entry whose ignore flag is true a skip is logged, no executor
\* is constructed and no lifecycle method runs; the entries after it are
\* still taken.
C6_IgnoredStepSkipped ==
    \A k \in DOMAIN steps :
        (steps[k].ignore /\ \E p \in DOMAIN trace : trace[p].i = k) =>
            /\ Count("skip", k) = 1
            /\ \A p \in DOMAIN trace :
                  trace[p].i = k => trace[p].ev \notin LifecycleEvents
            /\ (exit = "returned" => idx = Len(steps))

TypesOf(list) == [k \in DOMAIN list |-> list[k].type]

RECURSIVE UserTypesKept(_)
\* Types of the user steps that are none of tag_source, gitlab,
\* increment_release, in declared order.
UserTypesKept(list) ==
    IF list = <<>> THEN <<>>
    ELSE IF Head(list).type \in {"tag_source", "gitlab", "increment_release"}
         THEN UserTypesKept(Tail(list))
         ELSE <<Head(list).type>> \o UserTypesKept(Tail(list))

\* C7: the list the release action iterates is tag_source, the user steps
\* of no fixed type, gitlab, increment_release.
C7_ReleaseStepOrder ==
    (action_type = "release" /\ declared.present /\ pc # "start") =>
        TypesOf(steps) = <<"tag_source">> \o UserTypesKept(declared.list)
                             \o <<"gitlab", "increment_release">>

HandlerRuns(type) ==
    Cardinality({p \in DOMAIN trace :
                    trace[p].ev = "handler" /\ steps[trace[p].i].type = type})

\* C8: a release invocation that runs to completion has invoked
\* release_tag_source once and release_increment_release once, whatever the
\* user declared.  Stated for the runner that injects the fixed steps
\* (cicd-scripts); the Vjer runner, which injects none, runs them as often
\* as the user declares them.
C8_BookkeepingOnce ==
    (gen = "cicd" /\ action_type = "release" /\ exit = "returned") =>
        HandlerRuns("tag_source") = 1 /\ HandlerRuns("increment_release") = 1

\* The phase word of each executor class.
ExpectedPhase(cls) ==
    CASE cls = "TestStep"       -> "test"
      [] cls = "BuildStep"      -> "build"
      [] cls = "DeployStep"     -> "deploy"
      [] cls = "RollbackStep"   -> "rollback"
      [] cls = "ReleaseStep"    -> "release"
      [] cls = "PreReleaseStep" -> "release"

\* Entries whose _execute() has looked its handler up.
Dispatched ==
    {k \in DOMAIN steps :
        Count("no_method", k) + Count("not_callable", k) + Count("handler", k) >= 1}

\* C18: the handler name _execute() looks up for a step of type t is
\* '<phase>_<t>' with phase test, build, deploy, rollback or release by
\* executor class, and PreReleaseStep looks up the names ReleaseStep does.
C18_HandlerName ==
    \A k \in Dispatched :
        /\ action_method(step_class, steps[k].type)
               = <<ExpectedPhase(step_class), steps[k].type>>
        /\ step_class = "PreReleaseStep" =>
               action_method(step_class, steps[k].type)
                   = action_method("ReleaseStep", steps[k].type)

\* A pre-release step has run its release_<t> handler.
C18_Witness ==
    /\ step_class = "PreReleaseStep"
    /\ \E k \in Dispatched : Count("handler", k) = 1

Setups == {p \in DOMAIN trace : trace[p].ev = "setup"}

\* C19: in a build or test phase the one-time setup runs at most once, once
\* as soon as one step has run its pre(), in the pre() of the first entry
\* that is not ignored and in no other, and before any handler lookup.
C19_SetupOnce ==
    step_class \in {"BuildStep", "TestStep"} =>
        /\ Cardinality(Setups) <= 1
        /\ (\E k \in DOMAIN steps : Count("pre", k) >= 1) => Cardinality(Setups) = 1
        /\ \A p \in Setups :
              /\ trace[p].i = FirstUnignored(steps)
              /\ p > 1 /\ trace[p - 1] = Event("pre", trace[p].i)
              /\ \A q \in DOMAIN trace :
                    trace[q].ev \in {"no_method", "not_callable", "handler"} => p < q

Lookups(k) == Positions("no_method", k) \cup Positions("not_callable", k)
                  \cup Positions("handler", k)

\* C20: within one step the order is pre, handler, post.  The handler is
\* looked up only after pre() of that step has ended without error, and
\* post() runs only after the handler of that step has run and ended
\* without error: never after a failed, a missing or a non-callable handler.
C20_LifecycleOrder ==
    /\ pc = "exec" => err = "none" /\ Count("pre", cur) = 1 /\ Lookups(cur) = {}
    /\ pc = "post" => err = "none" /\ Count("handler", cur) = 1 /\ cur \in effects
    /\ \A k \in DOMAIN steps :
          /\ \A q \in Lookups(k) : \E p \in Positions("pre", k) : p < q
          /\ \A q \in Positions("post", k) :
                /\ \E p \in Positions("handler", k) : p < q
                /\ Positions("no_method", k) = {}
                /\ Positions("not_callable", k) = {}
                /\ k \in effects
          /\ Cardinality(Lookups(k)) <= 1
          /\ Count("pre", k) <= 1 /\ Count("post", k) <= 1

\* One step has run post() after its handler, and the next one has ended
\* without post() because its handler is missing.
C20_Witness ==
    \E j, k \in DOMAIN steps :
        /\ Count("post", j) = 1
        /\ Count("no_method", k) = 1 /\ Count("always_post", k) = 1
        /\ Count("post", k) = 0

-----------------------------------------------------------------------------
(* Properties of the version-file patch and restore.                        *)

OnlyUpdates(n) == \A i \in 1..n : calls[i].op = "update"

\* C9: update_version_files() followed by update_version_files(reset=True)
\* leaves every file of the step's version_files list with the content it
\* had before the update, and no '.orig' backup of it, whatever the list.
C9_RoundTrip ==
    (/\ Len(calls) = 2
     /\ calls[1] = [op |-> "update", raised |-> "none"]
     /\ calls[2].op = "reset")
    => \A p \in Range(version_files) : fs[p] = pristine[p] /\ ~orig[p].exists

\* C10: while updates are applied (once or again, a file listed once or
\* twice) every '.orig' backup holds the original content, the reset that
\* follows them restores the original of every file, and a reset that finds
\* no backup changes no file.
C10_BackupIdempotent ==
    /\ (calls # <<>> /\ OnlyUpdates(Len(calls)))
          => \A p \in Paths : orig[p].exists => orig[p] = pristine[p]
    /\ (/\ Len(calls) >= 2
        /\ OnlyUpdates(Len(calls) - 1)
        /\ calls[Len(calls)].op = "reset")
          => \A p \in Paths : fs[p] = pristine[p] /\ ~orig[p].exists
    /\ (/\ calls # <<>>
        /\ calls[Len(calls)].op = "reset"
        /\ \A p \in Paths : ~before.orig[p].exists)
          => fs = before.fs /\ orig = before.orig

-----------------------------------------------------------------------------
(* Properties of the build step around its version files.                   *)

\* The files update_version_files() patched in pre(): those that have a
\* backup when always_post() begins.
PatchedInPre == {p \in Paths : before.orig[p].exists}

\* C11: when a build step's lifecycle has ended, on whichever exit path,
\* every version file that pre() patched has the content it had before the
\* step.
C11_BuildRestoresVersionFiles ==
    pc = "done" => \A p \in PatchedInPre : fs[p] = pristine[p]

-----------------------------------------------------------------------------
(* Properties of ConfigSection.                                             *)

\* The two-tier reference lookup: the values entry when the key is in
\* values, else the defaults entry, else an error; expanded on the way out.
ReferenceLookup(sec, attr) ==
    IF sec.values[attr] # Absent
    THEN [kind |-> "value", v |-> expand(sec.values[attr])]
    ELSE IF sec.defaults[attr] # Absent
    THEN [kind |-> "value", v |-> expand(sec.defaults[attr])]
    ELSE [kind |-> "AttributeError", v |-> Absent]

\* C14: after any sequence of set, update and update_defaults, attribute
\* lookup of every key gives what the two-tier reference lookup gives: the
\* values entry, else the defaults entry, else an error.
C14_LookupIsTwoTier ==
    \A attr \in SectionKeys : section_get(section, attr) = ReferenceLookup(section, attr)

\* C15: each mutator changes one layer only: set writes its entry into
\* values and leaves defaults alone, update changes values only,
\* update_defaults changes defaults only, and the values snapshot has no
\* entry of a key that is in defaults only.
C15_MutatorsChangeOneLayer ==
    /\ sec_last.op = "set" =>
          /\ section.values = [sec_before.values EXCEPT ![sec_last.attr] = sec_last.value]
          /\ section.defaults = sec_before.defaults
    /\ sec_last.op = "update" =>
          /\ section.values = Merge(sec_before.values, sec_last.mapping)
          /\ section.defaults = sec_before.defaults
    /\ sec_last.op = "update_defaults" =>
          /\ section.defaults = Merge(sec_before.defaults, sec_last.mapping)
          /\ section.values = sec_before.values
    /\ \A e \in section_values(section) : section.values[e[1]] = e[2] /\ e[2] # Absent

-----------------------------------------------------------------------------
(* Properties of ProjectConfig.                                             *)

\* The document at the well-known path.
TheDocument == cfg_disk[PROJECT_CFG_FILE]

\* Every call so far was a construction: the document is as it was found.
OnlyConstructed == loads # <<>> /\ \A i \in DOMAIN loads : loads[i].op = "construct"

UnsupportedSchema(doc) == YamlAsDictSchema(doc) \notin VALID_SCHEMAS(gen)

NothingMerged == \A s \in CONFIG_SECTIONS : IsEmptyMap(config.sections[s].values)

\* C12: ProjectConfig() on a document whose schema is not supported, a
\* document without schema field included, raises InvalidSchema with no
\* section's values merged from the document, and no execute() of a runner
\* follows.
C12_SchemaGate ==
    (OnlyConstructed /\ TheDocument.kind = "mapping" /\ UnsupportedSchema(TheDocument))
    => /\ config.state = "failed"
       /\ config.raised = "INVALID_SCHEMA"
       /\ NothingMerged
       /\ phase_runs = 0

C12_Witness ==
    /\ OnlyConstructed
    /\ TheDocument.kind = "mapping"
    /\ TheDocument.schema = {}
    /\ TheDocument.sections["build"].present
    /\ config.raised = "INVALID_SCHEMA"

\* C13: ProjectConfig() fails with ConfigNotFound when the file is absent,
\* with BadFormat when the parsed document is empty, and with InvalidSchema
\* when a non-empty document has an unsupported schema.
C13_FailureByCause ==
    OnlyConstructed =>
       /\ TheDocument.kind = "missing" => config.raised = "CONFIG_FILE_NOT_FOUND"
       /\ TheDocument.kind = "empty" => config.raised = "BAD_FORMAT"
       /\ (TheDocument.kind = "mapping" /\ UnsupportedSchema(TheDocument))
             => config.raised = "INVALID_SCHEMA"

\* What the document supplies for a section.
Supplied(doc, s) == IF doc.sections[s].present THEN doc.sections[s].map ELSE NoEntries

\* The derived keys of each section.
DerivedKeys(s) ==
    CASE s = "project" -> {"artifacts_dir", "major", "minor", "patch"}
      [] s = "build" -> {"build_num", "build_version", "build_name"}
      [] s = "release" -> {"release_tag"}
      [] OTHER -> {}

\* The project section names a version service that resolves a version.
ResolvedByService ==
    /\ HasAttr(config.sections["project"], "version_service")
    /\ ServiceVersion(gen, Read(config.sections["project"], "version_service"), environ) # Absent

\* C16: after construction the values of every section are what the
\* document supplied, every derived value is in the defaults of its
\* section (the version a version service resolved too), and a read of a
\* key the document supplied gives the document's value.
C16_DerivedInDefaults ==
    (OnlyConstructed /\ config.state = "built")
    => /\ \A s \in CONFIG_SECTIONS :
             /\ config.sections[s].values = Supplied(TheDocument, s)
             /\ \A k \in DerivedKeys(s) : config.sections[s].defaults[k] # Absent
             /\ \A k \in ConfigKeys :
                   Supplied(TheDocument, s)[k] # Absent
                      => Read(config.sections[s], k) = expand(Supplied(TheDocument, s)[k])
       /\ ResolvedByService =>
             config.sections["project"].defaults["version"] =
                ServiceVersion(gen, Read(config.sections["project"], "version_service"), environ)

\* C17: a configuration that was loaded, written and loaded again has the
\* schema and the values snapshot of every section it had after the first
\* load; write() leaves at the path it was loaded from the schema and the
\* sections with non-empty values, and touches no other file.
C17_LoadWriteLoad ==
    /\ (Len(loads) >= 2 /\ loads[1].op = "construct" /\ loads[2].op = "write")
       => /\ cfg_disk["other.yml"] = NoDocument
          /\ TheDocument.kind = "mapping"
          /\ TheDocument.schema = {loads[1].schema}
          /\ \A s \in CONFIG_SECTIONS :
                /\ TheDocument.sections[s].present <=> loads[1].snapshot[s] # {}
                /\ {<<k, TheDocument.sections[s].map[k]>> :
                       k \in {x \in ConfigKeys : TheDocument.sections[s].map[x] # Absent}}
                   = loads[1].snapshot[s]
    /\ (Len(loads) = 3 /\ loads[1].op = "construct" /\ loads[2].op = "write"
                       /\ loads[3].op = "construct")
       => /\ loads[3].raised = "none"
          /\ loads[3].schema = loads[1].schema
          /\ loads[3].snapshot = loads[1].snapshot

C17_Witness ==
    /\ Len(loads) = 3
    /\ loads[1].op = "construct" /\ loads[2].op = "write" /\ loads[3].op = "construct"
    /\ loads[3].snapshot["project"] # {}
    /\ loads[3].snapshot["build"] # {}
    /\ loads[3].snapshot["test"] = {}

\* C25: after construction build_num is the value of the build number
\* variable, or "0" when it is unset, build_version is
\* '<version>-<build_num>', and major, minor and patch are the first,
\* second and third dot-separated component of the version.
C25_DerivedValues ==
    (OnlyConstructed /\ config.state = "built")
    => LET project == config.sections["project"]
           build == config.sections["build"]
           version == Read(project, "version")
           build_num == IF environ.BUILD_NUM = Absent THEN "0" ELSE environ.BUILD_NUM
       IN  /\ build.defaults["build_num"] = build_num
           /\ build.defaults["build_version"] = version \o "-" \o build_num
           /\ Len(Components(version)) >= 3 =>
                  /\ Read(project, "major") = Components(version)[1]
                  /\ Read(project, "minor") = Components(version)[2]
                  /\ Read(project, "patch") = Components(version)[3]

\* The service types each generation supports.
SupportedServices(g) ==
    IF g = "vjer" THEN {"bumpver", "environment", "vjer"} ELSE {"environment", "semver"}

\* The version service type the document declares (Absent when none).
DeclaredService == Supplied(TheDocument, "project")["version_service"]

\* The keys computed from the resolved version and the build number.
VersionDerivedKeys(s) ==
    CASE s = "project" -> {"major", "minor", "patch"}
      [] s = "build" -> {"build_num", "build_version", "build_version_msbuild", "build_name"}
      [] s = "release" -> {"release_tag"}
      [] OTHER -> {}

-----------------------------------------------------------------------------
(* Properties of the release and pre-release handlers.                      *)

\* The document names a version service.
DocumentDeclaresService == DeclaredService # Absent

\* C27: a release_increment_release that completes, in a release of a
\* project whose document declares no version service, leaves the project
\* version with its last component one higher, in memory and in the
\* document write() produced; in a pre-release, or with a declared version
\* service, it changes neither the configuration object nor the document.
C27_IncrementRelease ==
    [][(pc = "exec" /\ step_info.type = "increment_release" /\ pc' = "construct")
       => LET version == Read(config.sections["project"], "version")
              expected == CASE version = "1.2.3" -> "1.2.4"
                            [] version = "1.2.4" -> "1.2.5"
                            [] version = "1.2.5" -> "1.2.6"
                            [] OTHER -> "unexpected"
          IN  IF ~IsPreRelease(step_class) /\ ~DocumentDeclaresService
              THEN /\ Read(config'.sections["project"], "version") = expected
                   /\ cfg_disk'[PROJECT_CFG_FILE].sections["project"].map["version"] = expected
                   /\ cfg_disk'["other.yml"] = cfg_disk["other.yml"]
              ELSE config' = config /\ cfg_disk' = cfg_disk]_vars

\* The version the project has before an executor touches it.
ResolvedVersion ==
    CASE DeclaredService = "environment" -> environ.VERSION
      [] DeclaredService = "semver" -> SEMVER_VERSION
      [] DeclaredService = "bumpver" -> BUMPVER_VERSION
      [] OTHER -> Supplied(TheDocument, "project")["version"]

C23_ToleratedPushError ==
    \A p \in DOMAIN trace :
        /\ (trace[p].ev = "Error: 409" /\ step_class = "PreReleaseStep")
               => trace[p + 1] = Event("completed", trace[p].i)
        /\ (trace[p].ev = "Error: 500"
                \/ (trace[p].ev = "Error: 409" /\ step_class = "ReleaseStep"))
               => /\ trace[p + 1] = Event("raised", trace[p].i)
                  /\ exit = "raised"
                  /\ idx = trace[p].i

-----------------------------------------------------------------------------
(* Properties of the helpers.                                               *)

\* C22: publish_package of a name that is in remote storage, without
\* exists_ok, raises (DUPLICATE_PUBLISH once the existence test answered)
\* and neither packs nor stores; store is called for an existing name only
\* with exists_ok; and when the call has returned or raised, the directory
\* it pushed is off the directory stack again.
C22_DuplicatePublishGuard ==
    \A i \in DOMAIN oplog :
        oplog[i].call = "publish_package" =>
            /\ (oplog[i].existed /\ ~oplog[i].exists_ok) =>
                   /\ oplog[i].raised \in {"DUPLICATE_PUBLISH", "HTTPError"}
                   /\ ~oplog[i].packed
                   /\ ~oplog[i].store_called
            /\ (oplog[i].store_called /\ oplog[i].existed) => oplog[i].exists_ok
            /\ workdirs = <<>>

\* C24: when create_archive or get_stored_artifact has returned or raised,
\* no temporary directory is left, whatever the outcome.
C24_TempDirsReleased ==
    \A i \in DOMAIN oplog :
        oplog[i].call \in {"create_archive", "get_stored_artifact"} => tmpdirs = {}

\* A second call, create_archive in a temporary directory, has failed in
\* copyfile.
C24_Witness ==
    /\ idx = 2
    /\ oplog[1].call = "create_archive"
    /\ oplog[1].use_tmpdir
    /\ oplog[1].raised = "copyfile_failed"
    /\ pc = "done"

\* The component fails the validation of qb_deploy.
FailsValidation(c, rollback) ==
    IF rollback THEN ~c.rollback_build ELSE c.source_build_num # c.build_num

-----------------------------------------------------------------------------
(* Properties of nested actions.                                            *)

\* C21: at every moment of the process at most one step executor is
\* between the start of its pre and the end of its always_post, the steps
\* of an action run by deploy_umbrella included.
C21_OneLiveExecutor ==
    LET entered(p) == {<<trace[q].i, trace[q].depth>> :
                          q \in {r \in 1..p : trace[r].ev = "pre"}}
        left(p) == {<<trace[q].i, trace[q].depth>> :
                       q \in {r \in 1..p : trace[r].ev = "always_post"}}
    IN  \A p \in DOMAIN trace : Cardinality(entered(p) \ left(p)) <= 1

\* C29: the action deploy_umbrella runs for a component loads the
\* document of that component, the umbrella step of the outer document is
\* not executed again inside it, and no action is nested deeper than the
\* component actions of the outer umbrella step.
C29_UmbrellaRunsComponents ==
    /\ Len(frames) <= 2
    /\ \A d \in 2..Len(frames) :
          /\ frames[d].config_file = environ.PROJECT_CFG
          /\ frames[d].config_file # PROJECT_CFG_FILE
          /\ frames[d].stage # "umbrella"

====
